---- MODULE Spec2Model ----
(***************************************************************************)
(* Tenant registry of beezy-commerce-v2: the public.tenants table, the     *)
(* per-tenant PostgreSQL schemas, the service and route handlers that      *)
(* provision and tear them down, and the per-request search_path switch    *)
(* of tenantMiddleware on the shared __pg_connection__.                    *)
(*                                                                         *)
(* Strings the code manipulates (entityId, id, schemaName, search_path)    *)
(* are sequences of one-character strings.  A nullable value (a row or     *)
(* null, result.rows) is a set of at most one record.  Every `await        *)
(* db.raw(...)` is one atomic step of the request that issues it; requests *)
(* interleave between their steps, as Node's event loop lets them.         *)
(***************************************************************************)
EXTENDS Integers, Sequences, FiniteSets, TLC

\* ------------------------------------------------------------------ bounds
NumReqs == 2       \* requests served in one behaviour
MaxFaults == 1     \* storage statements that may fail in one behaviour
MaxQueries == 1    \* queries a downstream handler issues in one request

Reqs == 1..NumReqs

\* ------------------------------------------------------------------ inputs
IdAB == <<"a", "-", "b">>
IdA_B == <<"a", "_", "b">>
IdC == <<"c">>
EntityIds == {IdAB, IdA_B, IdC}
Name1 == <<"N", "1">>
Name2 == <<"N", "2">>
EntityNames == {Name1, Name2}
Empty == <<>>

\* ----------------------------------------------------------------- strings
TenantPrefix == <<"t", "e", "n", "a", "n", "t", "_">>
SchemaPrefix == <<"t", "e", "n", "a", "n", "t", "_", "e", "n", "t", "i", "t", "y", "_">>
Public == <<"p", "u", "b", "l", "i", "c">>

\* entityId.replace(/-/g, '_')
ReplaceHyphens(s) == [i \in 1..Len(s) |-> IF s[i] = "-" THEN "_" ELSE s[i]]

\* `tenant_${entityId}`
TenantIdOf(entityId) == TenantPrefix \o entityId

\* mutant of SchemaNameOf: the hyphens are kept
SchemaNameRaw(entityId) == SchemaPrefix \o entityId

\* `tenant_entity_${entityId.replace(/-/g, '_')}`
SchemaNameOf(entityId) == SchemaPrefix \o ReplaceHyphens(entityId)

\* JavaScript truthiness of a string: '' is falsy
Truthy(s) == s # Empty

VARIABLES
    tenants,       \* the rows of public.tenants (snake_case columns)
    schemas,       \* the names of the schemas that exist, public apart
    search_path,   \* the session search_path of the shared connection: its first entry
    now,           \* the database clock NOW()
    has_table,     \* whether the table public.tenants exists
    req,           \* the requests: operation, position, arguments, locals, outcome
    limit,         \* requests that may be in flight at once
    faults         \* storage failures that may still happen

vars == <<tenants, schemas, search_path, now, has_table, req, limit, faults>>

\* ------------------------------------------------------------ the table
\* SELECT * FROM public.tenants WHERE entity_id = ?
SelectByEntityId(entityId) == {row \in tenants : row.entity_id = entityId}

\* mutant of SelectBySchemaName: the WHERE clause names another column
SelectBySchemaNameAsId(schemaName) == {row \in tenants : row.id = schemaName}

\* SELECT * FROM public.tenants WHERE schema_name = ?
SelectBySchemaName(schemaName) == {row \in tenants : row.schema_name = schemaName}

\* mutant of SelectActiveByEntityId: the status filter is dropped
SelectAnyStatusByEntityId(entityId) == {row \in tenants : row.entity_id = entityId}

\* SELECT * FROM public.tenants WHERE entity_id = ? AND status = 'active'
SelectActiveByEntityId(entityId) ==
    {row \in tenants : row.entity_id = entityId /\ row.status = "active"}

\* the row an INSERT ... VALUES (?, ?, ?, ?, 'active') builds at time t
NewRow(id, entityId, entityName, schemaName, t) ==
    [id |-> id, entity_id |-> entityId, entity_name |-> entityName,
     schema_name |-> schemaName, status |-> "active",
     created_at |-> t, updated_at |-> t]

\* mutant of ViolatesUnique: schema_name is not declared UNIQUE
ViolatesUniqueButSchema(row, table) ==
    \E old \in table : \/ old.id = row.id
                       \/ old.entity_id = row.entity_id

\* id PRIMARY KEY, entity_id UNIQUE, schema_name UNIQUE
ViolatesUnique(row, table) ==
    \E old \in table : \/ old.id = row.id
                       \/ old.entity_id = row.entity_id
                       \/ old.schema_name = row.schema_name

\* the mapping of a row to TenantData (service.ts) and to the GET/PATCH bodies
ToTenantData(row) ==
    [id |-> row.id, entityId |-> row.entity_id, entityName |-> row.entity_name,
     schemaName |-> row.schema_name, status |-> row.status,
     createdAt |-> row.created_at, updatedAt |-> row.updated_at]

\* the tenant object of the POST /tenants and POST /admin/tenants bodies
ToTenantBody(row) ==
    [id |-> row.id, entityId |-> row.entity_id, entityName |-> row.entity_name,
     schemaName |-> row.schema_name, status |-> row.status]

\* getTenantByEntityId: the first row, mapped, or null
GetTenantByEntityId(entityId) ==
    {ToTenantData(row) : row \in SelectByEntityId(entityId)}

\* getTenantBySchemaName
GetTenantBySchemaName(schemaName) ==
    {ToTenantData(row) : row \in SelectBySchemaName(schemaName)}

\* listTenants, as the set of its entries
ListTenants == {ToTenantData(row) : row \in tenants}

\* ------------------------------------------------------------- requests
NoRes == [kind |-> "none", code |-> 0, data |-> {}, flag |-> FALSE]
Returned(data, flag) == [kind |-> "return", code |-> 0, data |-> data, flag |-> flag]
Thrown == [kind |-> "throw", code |-> 0, data |-> {}, flag |-> FALSE]
Response(code, data) == [kind |-> "response", code |-> code, data |-> data, flag |-> FALSE]

\* a timestamp of an SSO payload: a number of minutes, or missing (undefined)
NoTimestamp == [defined |-> FALSE, at |-> 0]

\* what a request carries besides entityId and entityName when it is an SSO login;
\* token tells how the payload arrived: as the body, or as the token of the query
NoPayload ==
    [token |-> "none", userId |-> Empty, email |-> Empty, timestamp |-> NoTimestamp,
     signature |-> Empty]

IdleReq ==
    [op |-> "none", pc |-> "idle", entityId |-> Empty, entityName |-> Empty,
     schemaName |-> Empty, adminKey |-> Empty, status |-> "", found |-> {},
     payload |-> NoPayload, res |-> NoRes, cookies |-> {},
     tenant |-> {}, events |-> <<>>, seen |-> {}]

NewReq(op, pc, entityId, entityName) ==
    [IdleReq EXCEPT !.op = op, !.pc = pc, !.entityId = entityId,
                    !.entityName = entityName]

InFlight == {r \in Reqs : req[r].pc \notin {"idle", "done"}}

\* request r may arrive: the requests are numbered in the order of their arrival
Free(r) ==
    /\ req[r].pc = "idle"
    /\ \A q \in Reqs : q < r => req[q].pc # "idle"
    /\ Cardinality(InFlight) < limit

\* a storage statement fails or not
FailSet == IF faults > 0 THEN {FALSE, TRUE} ELSE {FALSE}

\* a statement on public.tenants: it fails whenever the table does not exist
TableFailSet == IF has_table THEN FailSet ELSE {TRUE}

\* a failure of the storage uses up one of the failures that may still happen (a
\* statement on a missing table fails by itself: the actions pass has_table /\ fail)
Spend(fail) ==
    /\ faults' = (IF fail THEN faults - 1 ELSE faults)
    /\ limit' = limit
    /\ has_table' = has_table

Finish(r, res) == [req EXCEPT ![r].pc = "done", ![r].res = res]
Goto(r, pc) == [req EXCEPT ![r].pc = pc]


\* --------------------------------------------------------- SQL statements
\* CREATE SCHEMA IF NOT EXISTS "<schemaName>"
CreateSchemaIfNotExists(schemaName) == schemas \cup {schemaName}

\* mutant of DropSchemaIfExists: the schema is left in place
DropSchemaSkipped(schemaName) == schemas

\* DROP SCHEMA IF EXISTS "<schemaName>" CASCADE
DropSchemaIfExists(schemaName) == schemas \ {schemaName}

\* INSERT INTO public.tenants ... VALUES (...): the new table, or a unique violation
Insert(row) ==
    IF ViolatesUnique(row, tenants)
    THEN [ok |-> FALSE, table |-> tenants]
    ELSE [ok |-> TRUE, table |-> tenants \cup {row}]

\* INSERT ... ON CONFLICT (entity_id) DO UPDATE SET entity_name = EXCLUDED.entity_name,
\* updated_at = NOW(): a row with the same entity_id is updated in place; any other
\* unique violation is raised
Upsert(row) ==
    IF SelectByEntityId(row.entity_id) # {}
    THEN [ok |-> TRUE,
          table |-> {IF old.entity_id = row.entity_id
                     THEN [old EXCEPT !.entity_name = row.entity_name,
                                      !.updated_at = row.updated_at]
                     ELSE old : old \in tenants}]
    ELSE Insert(row)

\* mutant of UpdateStatus: the WHERE clause is missing
UpdateStatusEveryRow(entityId, status, t) ==
    {[row EXCEPT !.status = status, !.updated_at = t] : row \in tenants}

\* UPDATE public.tenants SET status = ?, updated_at = NOW() WHERE entity_id = ?
UpdateStatus(entityId, status, t) ==
    {IF row.entity_id = entityId
     THEN [row EXCEPT !.status = status, !.updated_at = t]
     ELSE row : row \in tenants}

\* DELETE FROM public.tenants WHERE entity_id = ?
DeleteByEntityId(entityId) == {row \in tenants : row.entity_id # entityId}

\* ----------------------------------------------- TenantModuleService
\* mutant of CreateTenantLookup: the early return of an existing tenant is missing
CreateTenantLookupNoReturn(r) ==
    /\ Free(r)
    /\ \E entityId \in EntityIds, entityName \in EntityNames :
         req' = [req EXCEPT ![r] =
                   NewReq("createTenant", "ct_schema", entityId, entityName)]
    /\ UNCHANGED <<tenants, schemas, search_path, now, has_table, limit, faults>>

\* createTenant, lines 44-52: derive id and schemaName, look the tenant up,
\* return it when it exists
CreateTenantLookup(r) ==
    /\ Free(r)
    /\ \E entityId \in EntityIds, entityName \in EntityNames, fail \in TableFailSet :
         LET existing == GetTenantByEntityId(entityId)
             call == NewReq("createTenant", "ct_schema", entityId, entityName)
         IN /\ req' = [req EXCEPT ![r] =
                         IF fail THEN [call EXCEPT !.pc = "done", !.res = Thrown]
                         ELSE IF existing # {}
                         THEN [call EXCEPT !.pc = "done", !.res = Returned(existing, TRUE)]
                         ELSE call]
            /\ Spend(has_table /\ fail)
    /\ UNCHANGED <<tenants, schemas, search_path, now>>

\* createTenant, line 55: CREATE SCHEMA IF NOT EXISTS
CreateTenantSchema(r) ==
    /\ req[r].op = "createTenant" /\ req[r].pc = "ct_schema"
    /\ \E fail \in FailSet :
         /\ schemas' = IF fail THEN schemas
                       ELSE CreateSchemaIfNotExists(SchemaNameOf(req[r].entityId))
         /\ req' = IF fail THEN Finish(r, Thrown) ELSE Goto(r, "ct_insert")
         /\ Spend(fail)
    /\ UNCHANGED <<tenants, search_path, now>>

\* createTenant, lines 58-67: INSERT ... ON CONFLICT (entity_id) DO UPDATE
CreateTenantInsert(r) ==
    /\ req[r].op = "createTenant" /\ req[r].pc = "ct_insert"
    /\ \E fail \in TableFailSet :
         LET entityId == req[r].entityId
             out == Upsert(NewRow(TenantIdOf(entityId), entityId, req[r].entityName,
                                  SchemaNameOf(entityId), now + 1))
         IN /\ tenants' = IF fail THEN tenants ELSE out.table
            /\ now' = IF fail THEN now ELSE now + 1
            /\ req' = IF fail \/ ~out.ok THEN Finish(r, Thrown) ELSE Goto(r, "ct_return")
            /\ Spend(has_table /\ fail)
    /\ UNCHANGED <<schemas, search_path>>

\* createTenant, line 69: return this.getTenantByEntityId(entityId)
CreateTenantReturn(r) ==
    /\ req[r].op = "createTenant" /\ req[r].pc = "ct_return"
    /\ \E fail \in TableFailSet :
         /\ req' = IF fail THEN Finish(r, Thrown)
                   ELSE Finish(r, Returned(GetTenantByEntityId(req[r].entityId), TRUE))
         /\ Spend(has_table /\ fail)
    /\ UNCHANGED <<tenants, schemas, search_path, now>>

\* updateTenantStatus, lines 132-135: the UPDATE
UpdateTenantStatus(r) ==
    /\ Free(r)
    /\ \E entityId \in EntityIds, status \in {"active", "inactive"}, fail \in TableFailSet :
         LET call == [NewReq("updateTenantStatus", "us_return", entityId, Empty)
                        EXCEPT !.status = status]
             hit == SelectByEntityId(entityId) # {}
         IN /\ tenants' = IF fail THEN tenants ELSE UpdateStatus(entityId, status, now + 1)
            /\ now' = IF fail \/ ~hit THEN now ELSE now + 1
            /\ req' = [req EXCEPT ![r] =
                         IF fail THEN [call EXCEPT !.pc = "done", !.res = Thrown] ELSE call]
            /\ Spend(has_table /\ fail)
    /\ UNCHANGED <<schemas, search_path>>

\* updateTenantStatus, line 137: return this.getTenantByEntityId(entityId)
UpdateTenantStatusReturn(r) ==
    /\ req[r].op = "updateTenantStatus" /\ req[r].pc = "us_return"
    /\ \E fail \in TableFailSet :
         /\ req' = IF fail THEN Finish(r, Thrown)
                   ELSE Finish(r, Returned(GetTenantByEntityId(req[r].entityId), TRUE))
         /\ Spend(has_table /\ fail)
    /\ UNCHANGED <<tenants, schemas, search_path, now>>

\* mutant of DeleteTenantLookup: the `if (!tenant) return false` is missing, and the
\* schema derived from the entityId is dropped at once
DeleteTenantLookupNoCheck(r) ==
    /\ Free(r)
    /\ \E entityId \in EntityIds :
         /\ req' = [req EXCEPT ![r] =
                      [NewReq("deleteTenant", "dt_delete", entityId, Empty)
                         EXCEPT !.found = GetTenantByEntityId(entityId)]]
         /\ schemas' = schemas \ {SchemaNameOf(entityId)}
    /\ UNCHANGED <<tenants, search_path, now, has_table, limit, faults>>

\* deleteTenant, lines 141-142: look the tenant up, return false when there is none
DeleteTenantLookup(r) ==
    /\ Free(r)
    /\ \E entityId \in EntityIds, fail \in TableFailSet :
         LET tenant == GetTenantByEntityId(entityId)
             call == [NewReq("deleteTenant", "dt_drop", entityId, Empty)
                        EXCEPT !.found = tenant]
         IN /\ req' = [req EXCEPT ![r] =
                         IF fail THEN [call EXCEPT !.pc = "done", !.res = Thrown, !.found = {}]
                         ELSE IF tenant = {}
                         THEN [call EXCEPT !.pc = "done", !.res = Returned({}, FALSE)]
                         ELSE call]
            /\ Spend(has_table /\ fail)
    /\ UNCHANGED <<tenants, schemas, search_path, now>>

\* mutant of DeleteTenantDrop: the row is deleted together with the schema
DeleteTenantDropWithRow(r) ==
    /\ req[r].op = "deleteTenant" /\ req[r].pc = "dt_drop"
    /\ \E tenant \in req[r].found :
         /\ schemas' = DropSchemaIfExists(tenant.schemaName)
         /\ tenants' = DeleteByEntityId(req[r].entityId)
    /\ req' = Goto(r, "dt_delete")
    /\ UNCHANGED <<search_path, now, has_table, limit, faults>>

\* deleteTenant, line 145: DROP SCHEMA IF EXISTS "<tenant.schemaName>" CASCADE
DeleteTenantDrop(r) ==
    /\ req[r].op = "deleteTenant" /\ req[r].pc = "dt_drop"
    /\ \E fail \in FailSet, tenant \in req[r].found :
         /\ schemas' = IF fail THEN schemas ELSE DropSchemaIfExists(tenant.schemaName)
         /\ req' = IF fail THEN Finish(r, Thrown) ELSE Goto(r, "dt_delete")
         /\ Spend(fail)
    /\ UNCHANGED <<tenants, search_path, now>>

\* deleteTenant, lines 148-152: DELETE the row, return true
DeleteTenantDelete(r) ==
    /\ req[r].op = "deleteTenant" /\ req[r].pc = "dt_delete"
    /\ \E fail \in TableFailSet :
         /\ tenants' = IF fail THEN tenants ELSE DeleteByEntityId(req[r].entityId)
         /\ req' = IF fail THEN Finish(r, Thrown) ELSE Finish(r, Returned({}, TRUE))
         /\ Spend(has_table /\ fail)
    /\ UNCHANGED <<schemas, search_path, now>>

\* mutant of InitializeTenantSystem: the table is dropped and created again
InitializeTenantSystemRecreate(r) ==
    /\ Free(r)
    /\ \E fail \in FailSet :
         /\ has_table' = IF fail THEN has_table ELSE TRUE
         /\ tenants' = IF fail THEN tenants ELSE {}
         /\ req' = [req EXCEPT ![r] =
                      [NewReq("initializeTenantSystem", "done", Empty, Empty)
                         EXCEPT !.res = IF fail THEN Thrown ELSE Returned({}, TRUE)]]
         /\ faults' = (IF fail THEN faults - 1 ELSE faults)
    /\ UNCHANGED <<schemas, search_path, now, limit>>

\* initializeTenantSystem, lines 26-41: CREATE TABLE IF NOT EXISTS public.tenants and
\* its indexes, one statement
InitializeTenantSystem(r) ==
    /\ Free(r)
    /\ \E fail \in FailSet :
         /\ has_table' = IF fail THEN has_table ELSE TRUE
         /\ req' = [req EXCEPT ![r] =
                      [NewReq("initializeTenantSystem", "done", Empty, Empty)
                         EXCEPT !.res = IF fail THEN Thrown ELSE Returned({}, TRUE)]]
         /\ faults' = (IF fail THEN faults - 1 ELSE faults)
    /\ UNCHANGED <<tenants, schemas, search_path, now, limit>>

\* getTenantByEntityId called by a client of the service, lines 72-90
CallGetTenantByEntityId(r) ==
    /\ Free(r)
    /\ \E entityId \in EntityIds, fail \in TableFailSet :
         /\ req' = [req EXCEPT ![r] =
                      [NewReq("getTenantByEntityId", "done", entityId, Empty)
                         EXCEPT !.res = IF fail THEN Thrown
                                        ELSE Returned(GetTenantByEntityId(entityId), TRUE)]]
         /\ Spend(has_table /\ fail)
    /\ UNCHANGED <<tenants, schemas, search_path, now>>

\* the schema names a client asks for
SchemaNames == {SchemaNameOf(entityId) : entityId \in EntityIds}

\* getTenantBySchemaName called by a client of the service, lines 92-110
CallGetTenantBySchemaName(r) ==
    /\ Free(r)
    /\ \E schemaName \in SchemaNames, fail \in TableFailSet :
         /\ req' = [req EXCEPT ![r] =
                      [NewReq("getTenantBySchemaName", "done", Empty, Empty)
                         EXCEPT !.schemaName = schemaName,
                                !.res = IF fail THEN Thrown
                                        ELSE Returned(GetTenantBySchemaName(schemaName),
                                                      TRUE)]]
         /\ Spend(has_table /\ fail)
    /\ UNCHANGED <<tenants, schemas, search_path, now>>

\* listTenants called by a client of the service, lines 112-126
CallListTenants(r) ==
    /\ Free(r)
    /\ \E fail \in TableFailSet :
         /\ req' = [req EXCEPT ![r] =
                      [NewReq("listTenants", "done", Empty, Empty)
                         EXCEPT !.res = IF fail THEN Thrown
                                        ELSE Returned(ListTenants, TRUE)]]
         /\ Spend(has_table /\ fail)
    /\ UNCHANGED <<tenants, schemas, search_path, now>>

\* ------------------------------------------------------- route handlers
ExpectedKey == <<"k">>
WrongKey == <<"x">>
AdminKeys == {ExpectedKey, WrongKey, Empty}
BodyEntityIds == EntityIds \cup {Empty}
BodyEntityNames == EntityNames \cup {Empty}

\* mutant of VerifyAdminKey: any key that is present is accepted
VerifyAdminKeyPresent(adminKey) == Truthy(adminKey)

\* verifyAdminKey: adminKey === expectedKey (a missing header is undefined, here Empty)
VerifyAdminKey(adminKey) == adminKey = ExpectedKey

\* mutant of PostChecked: the body is not validated
PostCheckedUnvalidated(call, fail) ==
    LET existing == SelectByEntityId(call.entityId)
    IN IF fail
       THEN [call EXCEPT !.pc = "done", !.res = Response(500, {})]
       ELSE IF existing # {}
       THEN [call EXCEPT !.pc = "done",
                         !.res = Response(200, {ToTenantBody(row) : row \in existing})]
       ELSE call

\* the request the POST handlers leave behind once the key and the body are checked
\* and the SELECT by entity_id is answered (route.ts lines 53-87)
PostChecked(call, fail) ==
    LET existing == SelectByEntityId(call.entityId)
    IN IF ~Truthy(call.entityId) \/ ~Truthy(call.entityName)
       THEN [call EXCEPT !.pc = "done", !.res = Response(400, {})]
       ELSE IF fail
       THEN [call EXCEPT !.pc = "done", !.res = Response(500, {})]
       ELSE IF existing # {}
       THEN [call EXCEPT !.pc = "done",
                         !.res = Response(200, {ToTenantBody(row) : row \in existing})]
       ELSE call

\* whether the POST handlers reach their SELECT
PostSelects(entityId, entityName) == Truthy(entityId) /\ Truthy(entityName)

\* POST /tenants, lines 44-87: admin key, body validation, lookup
PostTenants(r) ==
    /\ Free(r)
    /\ \E adminKey \in AdminKeys, entityId \in BodyEntityIds,
          entityName \in BodyEntityNames, fail \in TableFailSet :
         LET call == [NewReq("POST /tenants", "pt_schema", entityId, entityName)
                        EXCEPT !.adminKey = adminKey]
             authorized == VerifyAdminKey(adminKey)
         IN /\ req' = [req EXCEPT ![r] =
                         IF ~authorized
                         THEN [NewReq("POST /tenants", "done", Empty, Empty)
                                 EXCEPT !.adminKey = adminKey, !.res = Response(401, {})]
                         ELSE PostChecked(call, fail)]
            /\ Spend(has_table /\ fail /\ authorized /\ PostSelects(entityId, entityName))
    /\ UNCHANGED <<tenants, schemas, search_path, now>>

\* POST /admin/tenants, part_001 lines 36-70: body validation, lookup (no key)
PostAdminTenants(r) ==
    /\ Free(r)
    /\ \E entityId \in BodyEntityIds, entityName \in BodyEntityNames, fail \in TableFailSet :
         LET call == NewReq("POST /admin/tenants", "pt_schema", entityId, entityName)
         IN /\ req' = [req EXCEPT ![r] = PostChecked(call, fail)]
            /\ Spend(has_table /\ fail /\ PostSelects(entityId, entityName))
    /\ UNCHANGED <<tenants, schemas, search_path, now>>

\* both POST handlers: CREATE SCHEMA IF NOT EXISTS (route.ts line 90, part_001 line 73)
PostSchema(r) ==
    /\ req[r].op \in {"POST /tenants", "POST /admin/tenants"} /\ req[r].pc = "pt_schema"
    /\ \E fail \in FailSet :
         /\ schemas' = IF fail THEN schemas
                       ELSE CreateSchemaIfNotExists(SchemaNameOf(req[r].entityId))
         /\ req' = IF fail THEN Finish(r, Response(500, {})) ELSE Goto(r, "pt_insert")
         /\ Spend(fail)
    /\ UNCHANGED <<tenants, search_path, now>>

\* mutant of PostInsert: the handler stores the new tenant as 'inactive'
PostInsertInactive(r) ==
    /\ req[r].op \in {"POST /tenants", "POST /admin/tenants"} /\ req[r].pc = "pt_insert"
    /\ \E fail \in TableFailSet :
         LET entityId == req[r].entityId
             id == TenantIdOf(entityId)
             schemaName == SchemaNameOf(entityId)
             row == NewRow(id, entityId, req[r].entityName, schemaName, now + 1)
             out == Insert([row EXCEPT !.status = "inactive"])
             body == [id |-> id, entityId |-> entityId, entityName |-> req[r].entityName,
                      schemaName |-> schemaName, status |-> "active"]
         IN /\ tenants' = IF fail THEN tenants ELSE out.table
            /\ now' = IF fail \/ ~out.ok THEN now ELSE now + 1
            /\ req' = IF fail \/ ~out.ok THEN Finish(r, Response(500, {}))
                      ELSE Finish(r, Response(201, {body}))
            /\ Spend(has_table /\ fail)
    /\ UNCHANGED <<schemas, search_path>>

\* both POST handlers: the plain INSERT and the 201 answer built from the handler's
\* own values (route.ts lines 93-110, part_001 lines 76-93)
PostInsert(r) ==
    /\ req[r].op \in {"POST /tenants", "POST /admin/tenants"} /\ req[r].pc = "pt_insert"
    /\ \E fail \in TableFailSet :
         LET entityId == req[r].entityId
             id == TenantIdOf(entityId)
             schemaName == SchemaNameOf(entityId)
             out == Insert(NewRow(id, entityId, req[r].entityName, schemaName, now + 1))
             body == [id |-> id, entityId |-> entityId, entityName |-> req[r].entityName,
                      schemaName |-> schemaName, status |-> "active"]
         IN /\ tenants' = IF fail THEN tenants ELSE out.table
            /\ now' = IF fail \/ ~out.ok THEN now ELSE now + 1
            /\ req' = IF fail \/ ~out.ok THEN Finish(r, Response(500, {}))
                      ELSE Finish(r, Response(201, {body}))
            /\ Spend(has_table /\ fail)
    /\ UNCHANGED <<schemas, search_path>>

\* DELETE /admin/tenants/:entityId, lines 148-167: lookup, 404 when there is no row
DeleteLookup(r) ==
    /\ Free(r)
    /\ \E entityId \in EntityIds, fail \in TableFailSet :
         LET rows == SelectByEntityId(entityId)
             call == [NewReq("DELETE /admin/tenants/:entityId", "dl_drop", entityId, Empty) EXCEPT !.found = rows]
         IN /\ req' = [req EXCEPT ![r] =
                         IF fail
                         THEN [call EXCEPT !.pc = "done", !.res = Response(500, {}),
                                           !.found = {}]
                         ELSE IF rows = {}
                         THEN [call EXCEPT !.pc = "done", !.res = Response(404, {})]
                         ELSE call]
            /\ Spend(has_table /\ fail)
    /\ UNCHANGED <<tenants, schemas, search_path, now>>

\* mutant of DeleteDrop: a failing DROP SCHEMA is not caught
DeleteDropUncaught(r) ==
    /\ req[r].op = "DELETE /admin/tenants/:entityId" /\ req[r].pc = "dl_drop"
    /\ \E fail \in FailSet, row \in req[r].found :
         /\ schemas' = IF fail THEN schemas ELSE DropSchemaIfExists(row.schema_name)
         /\ req' = IF fail THEN Finish(r, Thrown) ELSE Goto(r, "dl_delete")
         /\ Spend(fail)
    /\ UNCHANGED <<tenants, search_path, now>>

\* DELETE handler, line 170: DROP SCHEMA IF EXISTS "<row.schema_name>" CASCADE
DeleteDrop(r) ==
    /\ req[r].op = "DELETE /admin/tenants/:entityId" /\ req[r].pc = "dl_drop"
    /\ \E fail \in FailSet, row \in req[r].found :
         /\ schemas' = IF fail THEN schemas ELSE DropSchemaIfExists(row.schema_name)
         /\ req' = IF fail THEN Finish(r, Response(500, {})) ELSE Goto(r, "dl_delete")
         /\ Spend(fail)
    /\ UNCHANGED <<tenants, search_path, now>>

\* DELETE handler, lines 173-182: DELETE the row, answer 200 with the deleted tenant
DeleteDelete(r) ==
    /\ req[r].op = "DELETE /admin/tenants/:entityId" /\ req[r].pc = "dl_delete"
    /\ \E fail \in TableFailSet :
         LET deleted == {[entityId |-> row.entity_id, entityName |-> row.entity_name,
                          schemaName |-> row.schema_name] : row \in req[r].found}
         IN /\ tenants' = IF fail THEN tenants ELSE DeleteByEntityId(req[r].entityId)
            /\ req' = IF fail THEN Finish(r, Response(500, {}))
                      ELSE Finish(r, Response(200, deleted))
            /\ Spend(has_table /\ fail)
    /\ UNCHANGED <<schemas, search_path, now>>

\* PATCH body values: '' stands for an absent (falsy) field
PatchStatuses == {"", "active", "inactive", "pending"}

\* entityName of a PATCH body (line 82): missing, or given
PatchEntityNames == {Empty, Name2}

\* UPDATE public.tenants SET <updates>, updated_at = NOW() WHERE entity_id = ?
\* with entity_name and status among the updates when the body gives them
UpdateFields(entityId, entityName, status, t) ==
    {IF row.entity_id = entityId
     THEN [row EXCEPT !.entity_name = IF Truthy(entityName) THEN entityName ELSE @,
                      !.status = IF status # "" THEN status ELSE @,
                      !.updated_at = t]
     ELSE row : row \in tenants}

\* mutant of PatchLookup: the answer 404 for a missing row is left out
PatchLookupUnchecked(r) ==
    /\ Free(r)
    /\ \E entityId \in EntityIds, entityName \in PatchEntityNames,
          status \in {"", "active", "inactive", "pending"} :
         req' = [req EXCEPT ![r] =
                   [NewReq("PATCH /admin/tenants/:entityId", "pa_update", entityId,
                           entityName) EXCEPT !.status = status]]
    /\ UNCHANGED <<tenants, schemas, search_path, now, has_table, limit, faults>>

\* PATCH /admin/tenants/:entityId, lines 76-98: lookup, 404 when there is no row
PatchLookup(r) ==
    /\ Free(r)
    /\ \E entityId \in EntityIds, entityName \in PatchEntityNames,
          status \in PatchStatuses, fail \in TableFailSet :
         LET existing == SelectByEntityId(entityId)
             call == [NewReq("PATCH /admin/tenants/:entityId", "pa_update", entityId,
                             entityName) EXCEPT !.status = status]
         IN /\ req' = [req EXCEPT ![r] =
                         IF fail THEN [call EXCEPT !.pc = "done", !.res = Response(500, {})]
                         ELSE IF existing = {}
                         THEN [call EXCEPT !.pc = "done", !.res = Response(404, {})]
                         ELSE call]
            /\ Spend(has_table /\ fail)
    /\ UNCHANGED <<tenants, schemas, search_path, now>>

\* mutant of PatchUpdate: the UPDATE is issued for an empty body too
PatchUpdateAlways(r) ==
    /\ req[r].op = "PATCH /admin/tenants/:entityId" /\ req[r].pc = "pa_update"
    /\ \E fail \in TableFailSet :
         LET hit == SelectByEntityId(req[r].entityId) # {}
         IN /\ tenants' = IF ~fail
                          THEN UpdateFields(req[r].entityId, req[r].entityName,
                                            req[r].status, now + 1)
                          ELSE tenants
            /\ now' = IF ~fail /\ hit THEN now + 1 ELSE now
            /\ req' = IF fail THEN Finish(r, Response(500, {}))
                      ELSE Goto(r, "pa_fetch")
            /\ Spend(has_table /\ fail)
    /\ UNCHANGED <<schemas, search_path>>

\* PATCH handler, lines 100-122: the UPDATE, issued only when the body gives a field
PatchUpdate(r) ==
    /\ req[r].op = "PATCH /admin/tenants/:entityId" /\ req[r].pc = "pa_update"
    /\ \E fail \in TableFailSet :
         LET issued == Truthy(req[r].entityName) \/ req[r].status # ""
             hit == SelectByEntityId(req[r].entityId) # {}
         IN /\ tenants' = IF issued /\ ~fail
                          THEN UpdateFields(req[r].entityId, req[r].entityName,
                                            req[r].status, now + 1)
                          ELSE tenants
            /\ now' = IF issued /\ ~fail /\ hit THEN now + 1 ELSE now
            /\ req' = IF issued /\ fail THEN Finish(r, Response(500, {}))
                      ELSE Goto(r, "pa_fetch")
            /\ Spend(has_table /\ issued /\ fail)
    /\ UNCHANGED <<schemas, search_path>>

\* PATCH handler, lines 124-142: fetch the row again and answer it; result.rows[0] of
\* an empty result is undefined and reading row.id throws into the catch (500)
PatchFetch(r) ==
    /\ req[r].op = "PATCH /admin/tenants/:entityId" /\ req[r].pc = "pa_fetch"
    /\ \E fail \in TableFailSet :
         LET rows == SelectByEntityId(req[r].entityId)
         IN /\ req' = IF fail \/ rows = {} THEN Finish(r, Response(500, {}))
                      ELSE Finish(r, Response(200, {ToTenantData(row) : row \in rows}))
            /\ Spend(has_table /\ fail)
    /\ UNCHANGED <<tenants, schemas, search_path, now>>

\* POST /tenants/init, tenants/init/route.ts lines 4-43: admin key, then the CREATE
\* TABLE IF NOT EXISTS statement
PostTenantsInit(r) ==
    /\ Free(r)
    /\ \E adminKey \in AdminKeys, fail \in FailSet :
         LET authorized == VerifyAdminKey(adminKey)
             call == [NewReq("POST /tenants/init", "done", Empty, Empty)
                        EXCEPT !.adminKey = adminKey]
         IN /\ has_table' = IF authorized /\ ~fail THEN TRUE ELSE has_table
            /\ req' = [req EXCEPT ![r] =
                         [call EXCEPT !.res = IF ~authorized THEN Response(401, {})
                                              ELSE IF fail THEN Response(500, {})
                                              ELSE Response(200, {})]]
            /\ faults' = (IF authorized /\ fail THEN faults - 1 ELSE faults)
    /\ UNCHANGED <<tenants, schemas, search_path, now, limit>>

\* POST /admin/tenants/init, admin/tenants/init/route.ts lines 4-34: the same statement,
\* no key
PostAdminTenantsInit(r) ==
    /\ Free(r)
    /\ \E fail \in FailSet :
         /\ has_table' = IF fail THEN has_table ELSE TRUE
         /\ req' = [req EXCEPT ![r] =
                      [NewReq("POST /admin/tenants/init", "done", Empty, Empty)
                         EXCEPT !.res = IF fail THEN Response(500, {})
                                        ELSE Response(200, {})]]
         /\ faults' = (IF fail THEN faults - 1 ELSE faults)
    /\ UNCHANGED <<tenants, schemas, search_path, now, limit>>

\* GET /tenants, tenants/route.ts lines 11-41: admin key, then the list
GetTenants(r) ==
    /\ Free(r)
    /\ \E adminKey \in AdminKeys, fail \in TableFailSet :
         LET authorized == VerifyAdminKey(adminKey)
             call == [NewReq("GET /tenants", "done", Empty, Empty)
                        EXCEPT !.adminKey = adminKey]
         IN /\ req' = [req EXCEPT ![r] =
                         [call EXCEPT !.res = IF ~authorized THEN Response(401, {})
                                              ELSE IF fail THEN Response(500, {})
                                              ELSE Response(200, ListTenants)]]
            /\ Spend(has_table /\ fail /\ authorized)
    /\ UNCHANGED <<tenants, schemas, search_path, now>>

\* GET /admin/tenants, part_001 lines 4-29: the list, no key
GetAdminTenants(r) ==
    /\ Free(r)
    /\ \E fail \in TableFailSet :
         /\ req' = [req EXCEPT ![r] =
                      [NewReq("GET /admin/tenants", "done", Empty, Empty)
                         EXCEPT !.res = IF fail THEN Response(500, {})
                                        ELSE Response(200, ListTenants)]]
         /\ Spend(has_table /\ fail)
    /\ UNCHANGED <<tenants, schemas, search_path, now>>

\* GET /admin/tenants/:entityId, lines 39-73: the row, or 404
GetTenant(r) ==
    /\ Free(r)
    /\ \E entityId \in EntityIds, fail \in TableFailSet :
         LET rows == SelectByEntityId(entityId)
         IN /\ req' = [req EXCEPT ![r] =
                         [NewReq("GET /admin/tenants/:entityId", "done", entityId, Empty)
                            EXCEPT !.res =
                              IF fail THEN Response(500, {})
                              ELSE IF rows = {} THEN Response(404, {})
                              ELSE Response(200, {ToTenantData(row) : row \in rows})]]
            /\ Spend(has_table /\ fail)
    /\ UNCHANGED <<tenants, schemas, search_path, now>>

\* ---------------------------------------------------------- SSO handlers
\* POST /auth/beezy-sso (part_000) and GET /auth/beezy-sso-redirect
SsoOps == {"POST /auth/beezy-sso", "GET /auth/beezy-sso-redirect"}

\* `Entity ${entityId}`
EntityPrefix == <<"E", "n", "t", "i", "t", "y", " ">>
EntityLabel(entityId) == EntityPrefix \o entityId

\* entityName || `Entity ${entityId}`
SsoEntityName(entityId, entityName) ==
    IF Truthy(entityName) THEN entityName ELSE EntityLabel(entityId)

\* what the SSO handlers answer once the tenant is known: the POST handler a body with
\* the tenant, the GET handler a redirect
SsoAnswer(op, id, entityId, entityName, schemaName) ==
    IF op = "POST /auth/beezy-sso"
    THEN Response(200, {[id |-> id, entityId |-> entityId, entityName |-> entityName,
                         schemaName |-> schemaName]})
    ELSE Response(302, {})

\* the cookies both handlers set before they answer (part_000 lines 115-127, route.ts
\* lines 140-154)
SsoCookies(entityId, schemaName) ==
    {[name |-> "tenant_id", value |-> entityId],
     [name |-> "tenant_schema", value |-> schemaName]}

\* process.env.BEEZY_SSO_SECRET || <default>, the variable not set: each handler has
\* its own default (part_000 line 55, route.ts line 84)
SsoSecret(op) ==
    IF op = "POST /auth/beezy-sso" THEN <<"s", "s", "o">> ELSE <<"p", "r", "o", "d">>

\* Date.now() of the handler and the window of 5 * 60 * 1000 ms, counted in minutes
DateNow == 10
FiveMinutes == 5

Timestamp(at) == [defined |-> TRUE, at |-> at]

\* the decimal digits of a number, as a template literal writes it
RECURSIVE Decimal(_)
Decimal(n) ==
    LET digit == <<"0", "1", "2", "3", "4", "5", "6", "7", "8", "9">>[(n % 10) + 1]
    IN IF n < 10 THEN <<digit>> ELSE Decimal(n \div 10) \o <<digit>>

\* `${timestamp}`
TimestampText(timestamp) ==
    IF timestamp.defined THEN Decimal(timestamp.at)
    ELSE <<"u", "n", "d", "e", "f", "i", "n", "e", "d">>

\* `${entityId}:${userId}:${timestamp}`
Message(entityId, userId, timestamp) ==
    entityId \o <<":">> \o userId \o <<":">> \o TimestampText(timestamp)

\* createHmac('sha256', secret).update(message).digest('hex'): 64 hexadecimal
\* characters fixed by the secret and the message, written here as "#secret#message"
HexDigest(secret, message) == <<"#">> \o secret \o <<"#">> \o message

\* Buffer.from(s).length
ByteLength(s) == IF s # Empty /\ s[1] = "#" THEN 64 ELSE Len(s)

\* crypto.timingSafeEqual: a RangeError when the two buffers differ in length
TimingSafeEqual(a, b) ==
    IF ByteLength(a) # ByteLength(b) THEN "throw"
    ELSE IF a = b THEN "true" ELSE "false"

\* verifySignature: part_000 lines 14-29 lets the RangeError through, route.ts lines
\* 14-35 catches it and returns false
VerifySignature(op, entityId, userId, timestamp, signature) ==
    LET expectedSignature == HexDigest(SsoSecret(op), Message(entityId, userId, timestamp))
        equal == TimingSafeEqual(signature, expectedSignature)
    IN IF op = "GET /auth/beezy-sso-redirect" /\ equal = "throw" THEN "false" ELSE equal

\* Math.abs(now - timestamp) > 5 * 60 * 1000; with no timestamp the difference is NaN
\* and the comparison is false
Expired(timestamp) ==
    IF ~timestamp.defined THEN FALSE
    ELSE LET diff == DateNow - timestamp.at
         IN (IF diff < 0 THEN -diff ELSE diff) > FiveMinutes

Error(message) == {[error |-> message]}

\* the answer of the checks that precede the first statement, NoRes when the payload
\* passes them all: part_000 lines 41-65, route.ts lines 50-90.  An exception of
\* verifySignature ends in the catch of the handler, which answers 500.
SsoVerdict(op, login) ==
    LET p == login.payload
        get == op = "GET /auth/beezy-sso-redirect"
        isValid == VerifySignature(op, login.entityId, p.userId, p.timestamp, p.signature)
    IN IF get /\ p.token = "none" THEN Response(400, Error("Missing token parameter"))
       ELSE IF get /\ p.token = "garbage" THEN Response(400, Error("Invalid token format"))
       ELSE IF \/ ~Truthy(login.entityId) \/ ~Truthy(p.userId)
               \/ ~Truthy(p.email) \/ ~Truthy(p.signature)
       THEN Response(400, Error(IF get THEN "Missing required fields in token"
                                ELSE "Missing required fields"))
       ELSE IF Expired(p.timestamp) THEN Response(401, Error("Token expired"))
       ELSE IF isValid = "throw"
       THEN Response(500, Error("Input buffers must have the same byte length"))
       ELSE IF isValid = "false" THEN Response(401, Error("Invalid signature"))
       ELSE NoRes

\* ---- the logins the model sends
SsoUser == <<"u">>
SsoEmail == <<"u", "@", "x">>
SsoEntityNames == {Empty, Name2}

\* a login of SsoUser signed with the handler's secret
Signed(op, entityId, entityName, timestamp) ==
    [entityId |-> entityId, entityName |-> entityName,
     payload |-> [token |-> "payload", userId |-> SsoUser, email |-> SsoEmail,
                  timestamp |-> timestamp,
                  signature |-> HexDigest(SsoSecret(op),
                                          Message(entityId, SsoUser, timestamp))]]

\* the other handler
OtherSso(op) == CHOOSE other \in SsoOps : other # op

\* the logins a handler receives: well-signed fresh ones for every entityId, and for
\* one entityId a login with each of these defects: a field missing, a timestamp at
\* the edge of the window, out of it, or missing, a signature made with another
\* secret, a signature of another length, and for the GET handler no token or a token
\* that does not decode
SsoLogins(op) ==
    LET base == Signed(op, IdAB, Name2, Timestamp(DateNow))
        forged == Signed(OtherSso(op), IdAB, Name2, Timestamp(DateNow))
    IN {Signed(op, entityId, entityName, Timestamp(DateNow)) :
          entityId \in EntityIds, entityName \in SsoEntityNames}
       \cup {[base EXCEPT !.entityId = Empty],
             [base EXCEPT !.payload.userId = Empty],
             [base EXCEPT !.payload.email = Empty],
             [base EXCEPT !.payload.signature = Empty],
             Signed(op, IdAB, Name2, Timestamp(DateNow - FiveMinutes)),
             Signed(op, IdAB, Name2, Timestamp(DateNow - FiveMinutes - 1)),
             Signed(op, IdAB, Name2, Timestamp(DateNow + FiveMinutes + 1)),
             Signed(op, IdAB, Name2, NoTimestamp),
             [base EXCEPT !.payload.signature = forged.payload.signature],
             [base EXCEPT !.payload.signature = <<"s", "i", "g">>]}
       \cup (IF op = "GET /auth/beezy-sso-redirect"
             THEN {[entityId |-> Empty, entityName |-> Empty, payload |-> NoPayload],
                   [entityId |-> Empty, entityName |-> Empty,
                    payload |-> [NoPayload EXCEPT !.token = "garbage"]]}
             ELSE {})

\* both SSO handlers up to their first statement: the checks of the payload, then
\* CREATE TABLE IF NOT EXISTS public.tenants (part_000 lines 36-80,
\* beezy-sso-redirect/route.ts lines 49-105)
SsoTable(r) ==
    /\ Free(r)
    /\ \E op \in SsoOps : \E login \in SsoLogins(op), fail \in FailSet :
         LET verdict == SsoVerdict(op, login)
             passed == verdict = NoRes
             call == [NewReq(op, "sso_select", login.entityId, login.entityName)
                        EXCEPT !.payload = login.payload]
         IN /\ has_table' = IF passed /\ ~fail THEN TRUE ELSE has_table
            /\ req' = [req EXCEPT ![r] =
                         IF ~passed THEN [call EXCEPT !.pc = "done", !.res = verdict]
                         ELSE IF fail
                         THEN [call EXCEPT !.pc = "done", !.res = Response(500, {})]
                         ELSE call]
            /\ faults' = (IF passed /\ fail THEN faults - 1 ELSE faults)
    /\ UNCHANGED <<tenants, schemas, search_path, now, limit>>

\* both SSO handlers: SELECT by entity_id, cookies and answer with the tenant when
\* there is one (part_000 lines 83-90 and 114-143, route.ts lines 108-115 and 139-172)
SsoSelect(r) ==
    /\ req[r].op \in SsoOps /\ req[r].pc = "sso_select"
    /\ \E fail \in TableFailSet :
         LET rows == SelectByEntityId(req[r].entityId)
         IN /\ req' = IF fail THEN Finish(r, Response(500, {}))
                      ELSE IF rows = {} THEN Goto(r, "sso_schema")
                      ELSE LET row == CHOOSE row \in rows : TRUE
                           IN [req EXCEPT
                                 ![r].pc = "done",
                                 ![r].res = SsoAnswer(req[r].op, row.id, row.entity_id,
                                                      row.entity_name, row.schema_name),
                                 ![r].cookies = SsoCookies(req[r].entityId,
                                                           row.schema_name)]
            /\ Spend(has_table /\ fail)
    /\ UNCHANGED <<tenants, schemas, search_path, now>>

\* both SSO handlers: CREATE SCHEMA IF NOT EXISTS (part_000 line 95, route.ts line 120)
SsoSchema(r) ==
    /\ req[r].op \in SsoOps /\ req[r].pc = "sso_schema"
    /\ \E fail \in FailSet :
         /\ schemas' = IF fail THEN schemas
                       ELSE CreateSchemaIfNotExists(SchemaNameOf(req[r].entityId))
         /\ req' = IF fail THEN Finish(r, Response(500, {})) ELSE Goto(r, "sso_insert")
         /\ Spend(fail)
    /\ UNCHANGED <<tenants, search_path, now>>

\* both SSO handlers: the plain INSERT of the auto-created tenant, the cookies and the
\* answer built from the handler's own values (part_000 lines 97-143, route.ts lines
\* 122-172)
SsoInsert(r) ==
    /\ req[r].op \in SsoOps /\ req[r].pc = "sso_insert"
    /\ \E fail \in TableFailSet :
         LET entityId == req[r].entityId
             id == TenantIdOf(entityId)
             schemaName == SchemaNameOf(entityId)
             out == Insert(NewRow(id, entityId, SsoEntityName(entityId, req[r].entityName),
                                  schemaName, now + 1))
         IN /\ tenants' = IF fail THEN tenants ELSE out.table
            /\ now' = IF fail \/ ~out.ok THEN now ELSE now + 1
            /\ req' = IF fail \/ ~out.ok THEN Finish(r, Response(500, {}))
                      ELSE [req EXCEPT
                              ![r].pc = "done",
                              ![r].res = SsoAnswer(req[r].op, id, entityId,
                                                   req[r].entityName, schemaName),
                              ![r].cookies = SsoCookies(entityId, schemaName)]
            /\ Spend(has_table /\ fail)
    /\ UNCHANGED <<schemas, search_path>>

\* ------------------------------------------------------ tenantMiddleware
\* the values the x-tenant-id header and the tenant_id cookie may carry (Empty: absent)
TenantIdValues == EntityIds \cup {Empty}

\* req.tenant as lines 50-55 build it
ToRequestTenant(row) ==
    [id |-> row.id, entityId |-> row.entity_id, entityName |-> row.entity_name,
     schemaName |-> row.schema_name]

\* the request as tenantMiddleware leaves it at its first next() or at the switch:
\* lines 24-55.  A failing lookup goes to the catch of lines 71-74, which calls next().
MwResolved(call, fail) ==
    LET rows == SelectActiveByEntityId(call.entityId)
    IN IF ~Truthy(call.entityId) \/ (~fail /\ rows = {})
       THEN [call EXCEPT !.pc = "handler", !.events = <<"next">>]
       ELSE IF fail
       THEN [call EXCEPT !.pc = "handler", !.events = <<"catch", "next">>]
       ELSE [call EXCEPT !.pc = "mw_switch",
                         !.tenant = {ToRequestTenant(row) : row \in rows}]

\* tenantMiddleware, lines 24-55: read the tenant id, look the active tenant up,
\* set req.tenant
MwEnter(r) ==
    /\ Free(r)
    /\ \E header \in TenantIdValues, cookie \in TenantIdValues, fail \in TableFailSet :
         LET tenantId == IF Truthy(header) THEN header ELSE cookie
             call == NewReq("tenantMiddleware", "mw_lookup", tenantId, Empty)
         IN /\ req' = [req EXCEPT ![r] = MwResolved(call, fail)]
            /\ Spend(has_table /\ fail /\ Truthy(tenantId))
    /\ UNCHANGED <<tenants, schemas, search_path, now>>

\* mutant of MwSwitch: the reset runs right after next() instead of on 'finish'
MwSwitchResetInline(r) ==
    /\ req[r].op = "tenantMiddleware" /\ req[r].pc = "mw_switch"
    /\ search_path' = Public
    /\ req' = [req EXCEPT ![r].pc = "handler",
                          ![r].events = <<"switch", "next", "reset">>]
    /\ UNCHANGED <<tenants, schemas, now, has_table, limit, faults>>

\* tenantMiddleware, lines 58-70: SET search_path TO "<schema_name>", public; next();
\* the reset is registered on 'finish'.  A failing SET goes to the catch, which calls
\* next() and registers nothing.
MwSwitch(r) ==
    /\ req[r].op = "tenantMiddleware" /\ req[r].pc = "mw_switch"
    /\ \E fail \in FailSet, tenant \in req[r].tenant :
         /\ search_path' = IF fail THEN search_path ELSE tenant.schemaName
         /\ req' = [req EXCEPT ![r].pc = "handler",
                               ![r].events = IF fail THEN <<"catch", "next">>
                                             ELSE <<"switch", "next">>]
         /\ Spend(fail)
    /\ UNCHANGED <<tenants, schemas, now>>

Count(events, e) == Cardinality({i \in 1..Len(events) : events[i] = e})

\* a downstream /store/* or /vendor/* handler runs a query on the shared connection:
\* unqualified names resolve against the session's search_path at that moment
HandlerQuery(r) ==
    /\ req[r].op = "tenantMiddleware" /\ req[r].pc = "handler"
    /\ Count(req[r].events, "query") < MaxQueries
    /\ req' = [req EXCEPT ![r].seen = @ \cup {search_path},
                          ![r].events = Append(@, "query")]
    /\ UNCHANGED <<tenants, schemas, search_path, now, has_table, limit, faults>>

\* the response has been fully sent: 'finish' fires, and with it the listener of
\* line 64 when the middleware registered one
ResponseFinish(r) ==
    /\ req[r].op = "tenantMiddleware" /\ req[r].pc = "handler"
    /\ req' = [req EXCEPT ![r].pc = IF Count(req[r].events, "switch") > 0
                                    THEN "mw_reset" ELSE "done",
                          ![r].events = Append(@, "finish"),
                          ![r].res = Response(200, {})]
    /\ UNCHANGED <<tenants, schemas, search_path, now, has_table, limit, faults>>

\* the connection is closed before the response has been sent: 'close' fires without
\* 'finish', and the listener of line 64 never runs
ResponseClose(r) ==
    /\ req[r].op = "tenantMiddleware" /\ req[r].pc = "handler"
    /\ req' = [req EXCEPT ![r].pc = "done",
                          ![r].events = Append(@, "close")]
    /\ UNCHANGED <<tenants, schemas, search_path, now, has_table, limit, faults>>

\* tenantMiddleware, lines 64-70: the 'finish' listener resets the search_path and
\* ignores a failure of the reset
MwReset(r) ==
    /\ req[r].op = "tenantMiddleware" /\ req[r].pc = "mw_reset"
    /\ \E fail \in FailSet :
         /\ search_path' = IF fail THEN search_path ELSE Public
         /\ req' = [req EXCEPT ![r].pc = "done",
                               ![r].events = IF fail THEN @ ELSE Append(@, "reset")]
         /\ Spend(fail)
    /\ UNCHANGED <<tenants, schemas, now>>

\* ------------------------------------------------------- specification
\* the registries a behaviour starts from: an empty one, and one with a tenant
\* provisioned earlier, as createTenant leaves it
InitialTenants == {{}, {NewRow(TenantIdOf(IdC), IdC, Name1, SchemaNameOf(IdC), 1)}}

\* the registry's operations, interleaved, with every storage statement succeeding
Init ==
    /\ tenants \in InitialTenants
    /\ schemas = {row.schema_name : row \in tenants}
    /\ search_path = Public
    /\ now = 1
    /\ has_table = TRUE
    /\ req = [r \in Reqs |-> IdleReq]
    /\ limit = NumReqs
    /\ faults = 0

RegistryStep(r) ==
    \/ CreateTenantLookup(r)
    \/ CreateTenantSchema(r)
    \/ CreateTenantInsert(r)
    \/ CreateTenantReturn(r)
    \/ UpdateTenantStatus(r)
    \/ UpdateTenantStatusReturn(r)
    \/ DeleteTenantLookup(r)
    \/ DeleteTenantDrop(r)
    \/ DeleteTenantDelete(r)
    \/ PostTenants(r)
    \/ PostAdminTenants(r)
    \/ PostSchema(r)
    \/ PostInsert(r)
    \/ DeleteLookup(r)
    \/ DeleteDrop(r)
    \/ DeleteDelete(r)

Next == \E r \in Reqs : RegistryStep(r)

Spec == Init /\ [][Next]_vars


\* two tenants provisioned and active, as create leaves them; one statement may fail
InitMw ==
    /\ tenants = {NewRow(TenantIdOf(IdAB), IdAB, Name1, SchemaNameOf(IdAB), 1),
                  NewRow(TenantIdOf(IdC), IdC, Name2, SchemaNameOf(IdC), 2)}
    /\ schemas = {SchemaNameOf(IdAB), SchemaNameOf(IdC)}
    /\ search_path = Public
    /\ now = 2
    /\ has_table = TRUE
    /\ req = [r \in Reqs |-> IdleReq]
    /\ limit = NumReqs
    /\ faults = MaxFaults

MiddlewareStep(r) ==
    \/ MwEnter(r)
    \/ MwSwitch(r)
    \/ HandlerQuery(r)
    \/ ResponseFinish(r)
    \/ MwReset(r)
    \/ UpdateTenantStatus(r)
    \/ UpdateTenantStatusReturn(r)

NextMw == \E r \in Reqs : MiddlewareStep(r)

SpecMw == InitMw /\ [][NextMw]_vars

\* the middleware alone, every response ending with 'finish' or with 'close'
EndingStep(r) ==
    \/ MwEnter(r)
    \/ MwSwitch(r)
    \/ HandlerQuery(r)
    \/ ResponseFinish(r)
    \/ ResponseClose(r)
    \/ MwReset(r)

NextMwLive == \E r \in Reqs : EndingStep(r)

\* Node runs every continuation and every listener that is due: the SET statements
\* come back, and a response that is being served ends, in 'finish' or in 'close'
SpecMwLive ==
    /\ InitMw
    /\ [][NextMwLive]_vars
    /\ \A r \in Reqs : /\ WF_vars(MwSwitch(r))
                       /\ WF_vars(ResponseFinish(r) \/ ResponseClose(r))
                       /\ WF_vars(MwReset(r))

\* the middleware serving requests while tenants are deleted, through the service and
\* through the DELETE route
TeardownStep(r) ==
    \/ MwEnter(r)
    \/ MwSwitch(r)
    \/ HandlerQuery(r)
    \/ ResponseFinish(r)
    \/ MwReset(r)
    \/ DeleteTenantLookup(r)
    \/ DeleteTenantDrop(r)
    \/ DeleteTenantDelete(r)
    \/ DeleteLookup(r)
    \/ DeleteDrop(r)
    \/ DeleteDelete(r)

NextMwDelete == \E r \in Reqs : TeardownStep(r)

SpecMwDelete == InitMw /\ [][NextMwDelete]_vars

\* one request at a time: the registry's operations called one after another,
\* with every storage statement succeeding
InitSeq ==
    /\ tenants \in InitialTenants
    /\ schemas = {row.schema_name : row \in tenants}
    /\ search_path = Public
    /\ now = 1
    /\ has_table = TRUE
    /\ req = [r \in Reqs |-> IdleReq]
    /\ limit = 1
    /\ faults = 0

\* one call at a time, the PATCH route among the calls
SerialStep(r) ==
    \/ RegistryStep(r)
    \/ PatchLookup(r)
    \/ PatchUpdate(r)
    \/ PatchFetch(r)

NextSeq == \E r \in Reqs : SerialStep(r)

SpecSeq == InitSeq /\ [][NextSeq]_vars

\* one call at a time: the operations that write the columns of a row, and the
\* service's reads
ValueStep(r) ==
    \/ CreateTenantLookup(r)
    \/ CreateTenantSchema(r)
    \/ CreateTenantInsert(r)
    \/ CreateTenantReturn(r)
    \/ SsoTable(r)
    \/ SsoSelect(r)
    \/ SsoSchema(r)
    \/ SsoInsert(r)
    \/ UpdateTenantStatus(r)
    \/ UpdateTenantStatusReturn(r)
    \/ PatchLookup(r)
    \/ PatchUpdate(r)
    \/ PatchFetch(r)
    \/ CallGetTenantByEntityId(r)
    \/ CallGetTenantBySchemaName(r)
    \/ CallListTenants(r)

NextValues == \E r \in Reqs : ValueStep(r)

SpecValues == InitSeq /\ [][NextValues]_vars

\* one request at a time against a storage that may fail, the table public.tenants
\* there or not yet created
InitRoutes ==
    /\ tenants \in InitialTenants
    /\ schemas = {row.schema_name : row \in tenants}
    /\ search_path = Public
    /\ now = 1
    /\ has_table \in {has \in BOOLEAN : tenants # {} => has}
    /\ req = [r \in Reqs |-> IdleReq]
    /\ limit = 1
    /\ faults = MaxFaults

\* the operations that create the table, and the routes behind the admin key
AuthStep(r) ==
    \/ InitializeTenantSystem(r)
    \/ PostTenantsInit(r)
    \/ PostAdminTenantsInit(r)
    \/ GetTenants(r)
    \/ PostTenants(r)
    \/ PostAdminTenants(r)
    \/ PostSchema(r)
    \/ PostInsert(r)

NextAuth == \E r \in Reqs : AuthStep(r)

SpecAuth == InitRoutes /\ [][NextAuth]_vars

\* the routes on /admin/tenants/:entityId, and deleteTenant
EntityStep(r) ==
    \/ GetTenant(r)
    \/ PatchLookup(r)
    \/ PatchUpdate(r)
    \/ PatchFetch(r)
    \/ DeleteLookup(r)
    \/ DeleteDrop(r)
    \/ DeleteDelete(r)
    \/ DeleteTenantLookup(r)
    \/ DeleteTenantDrop(r)
    \/ DeleteTenantDelete(r)

NextEntity == \E r \in Reqs : EntityStep(r)

SpecEntity == InitRoutes /\ [][NextEntity]_vars

\* every route handler of the registry, one request at a time against a storage that
\* may fail, a tenant provisioned
InitHandlers ==
    /\ InitRoutes
    /\ tenants # {}

RouteStep(r) ==
    \/ PostTenantsInit(r)
    \/ PostAdminTenantsInit(r)
    \/ GetTenants(r)
    \/ GetAdminTenants(r)
    \/ GetTenant(r)
    \/ PostTenants(r)
    \/ PostAdminTenants(r)
    \/ PostSchema(r)
    \/ PostInsert(r)
    \/ PatchLookup(r)
    \/ PatchUpdate(r)
    \/ PatchFetch(r)
    \/ DeleteLookup(r)
    \/ DeleteDrop(r)
    \/ DeleteDelete(r)

NextRoutes == \E r \in Reqs : RouteStep(r)

SpecRoutes == InitHandlers /\ [][NextRoutes]_vars

\* the SSO handlers, two logins at a time, every storage statement succeeding, the
\* table public.tenants there or not yet created
InitSso ==
    /\ tenants \in InitialTenants
    /\ schemas = {row.schema_name : row \in tenants}
    /\ search_path = Public
    /\ now = 1
    /\ has_table \in {has \in BOOLEAN : tenants # {} => has}
    /\ req = [r \in Reqs |-> IdleReq]
    /\ limit = 2
    /\ faults = 0

SsoStep(r) ==
    \/ SsoTable(r)
    \/ SsoSelect(r)
    \/ SsoSchema(r)
    \/ SsoInsert(r)

NextSso == \E r \in Reqs : SsoStep(r)

SpecSso == InitSso /\ [][NextSso]_vars

\* the SSO handlers, one login at a time, against a storage that may fail
SpecSsoSeq == InitRoutes /\ [][NextSso]_vars

\* the registry's operations, interleaved, from the state Spec is in when one more
\* call is under way: a createTenant call for c has passed its existence check, which
\* found no row, and c has been provisioned since by another create call
InitRace ==
    /\ tenants = {NewRow(TenantIdOf(IdC), IdC, Name1, SchemaNameOf(IdC), 1)}
    /\ schemas = {SchemaNameOf(IdC)}
    /\ search_path = Public
    /\ now = 1
    /\ has_table = TRUE
    /\ req = [r \in Reqs |-> IF r = 1 THEN NewReq("createTenant", "ct_schema", IdC, Name2)
                             ELSE IdleReq]
    /\ limit = NumReqs
    /\ faults = 0

SpecRace == InitRace /\ [][Next]_vars

\* createTenant / deleteTenant and the POST /tenants / DELETE handlers, one call at a
\* time from a registry with one tenant provisioned, every storage statement
\* succeeding
InitTwin ==
    /\ InitSeq
    /\ tenants # {}

TwinStep(r) ==
    \/ CreateTenantLookup(r)
    \/ CreateTenantSchema(r)
    \/ CreateTenantInsert(r)
    \/ CreateTenantReturn(r)
    \/ DeleteTenantLookup(r)
    \/ DeleteTenantDrop(r)
    \/ DeleteTenantDelete(r)
    \/ PostTenants(r)
    \/ PostSchema(r)
    \/ PostInsert(r)
    \/ DeleteLookup(r)
    \/ DeleteDrop(r)
    \/ DeleteDelete(r)

NextTwin == \E r \in Reqs : TwinStep(r)

SpecTwin == InitTwin /\ [][NextTwin]_vars

\* ------------------------------------------------------------ properties
CreateOps == {"createTenant", "POST /tenants", "POST /admin/tenants"}
DeleteOps == {"deleteTenant", "DELETE /admin/tenants/:entityId"}

Done(r) == req[r].pc = "done"

\* request r started in this step
Starts(r) == req[r].pc = "idle" /\ req'[r].pc # "idle"

\* no request after r has arrived
Latest(r) == \A o \in Reqs : o > r => req[o].pc = "idle"

\* request r took this step
Steps(r) == req'[r] # req[r]

\* request r returned or answered in this step
Completes(r) == Steps(r) /\ req'[r].pc = "done"

\* the call ended in an exception or an error answer
Errored(r) ==
    \/ req[r].res.kind = "throw"
    \/ req[r].res.kind = "response" /\ req[r].res.code >= 400

\* the tenant a create call handed to its caller, on the fields all three creates give
TenantGiven(r) ==
    {[id |-> d.id, entityId |-> d.entityId, entityName |-> d.entityName,
      schemaName |-> d.schemaName, status |-> d.status] : d \in req[r].res.data}

\* the stored row of an entityId on the same fields
TenantStored(entityId) == {ToTenantBody(row) : row \in SelectByEntityId(entityId)}

\* what getTenantByEntityId would return from a given table
TenantIn(table, entityId) ==
    {ToTenantData(row) : row \in {x \in table : x.entity_id = entityId}}

\* C2: two create calls with the same entityId, and nothing else, have run to their
\* end: one schema and one row exist for the entityId, neither caller got an error,
\* and both got the same tenant
C2_ConcurrentCreateOnce ==
    \A q \in Reqs, r \in Reqs :
        ( /\ q # r /\ Done(q) /\ Done(r)
          /\ \A o \in Reqs \ {q, r} : req[o].pc = "idle"
          /\ req[q].op \in CreateOps /\ req[r].op \in CreateOps
          /\ req[q].entityId = req[r].entityId
          /\ Truthy(req[q].entityId)
          /\ Truthy(req[q].entityName) /\ Truthy(req[r].entityName) )
        => /\ Cardinality(SelectByEntityId(req[q].entityId)) = 1
           /\ SchemaNameOf(req[q].entityId) \in schemas
           /\ ~Errored(q) /\ ~Errored(r)
           /\ TenantGiven(q) # {}
           /\ TenantGiven(q) = TenantGiven(r)

\* C3: every row of public.tenants names a schema that exists
C3_RowHasSchema == \A row \in tenants : row.schema_name \in schemas

\* C5: whenever createTenant returns, it returns a tenant, and at that moment the
\* row of that entityId is the one returned and its schema exists
C5_CreateGuarantee ==
    [][\A r \in Reqs :
         ( /\ Completes(r)
           /\ req'[r].op = "createTenant"
           /\ req'[r].res.kind = "return" )
         => /\ req'[r].res.data # {}
            /\ req'[r].res.data = TenantIn(tenants', req'[r].entityId)
            /\ \A d \in req'[r].res.data : d.schemaName \in schemas']_vars

\* C4: create(entityId, name1) directly followed by create(entityId, name2), one
\* after the other: the second call returns what the first returned, with name1 when
\* the first call created the tenant, and the stored row is still the one the first
\* call left
C4_CreateIdempotent ==
    \A q \in Reqs, r \in Reqs :
        ( /\ Done(q) /\ Done(r)
          /\ req[q].op \in CreateOps /\ req[r].op \in CreateOps
          /\ r = q + 1 /\ Latest(r)
          /\ req[q].entityId = req[r].entityId
          /\ Truthy(req[r].entityId) /\ Truthy(req[r].entityName)
          /\ ~Errored(q) /\ TenantGiven(q) # {} )
        => /\ ~Errored(r)
           /\ TenantGiven(r) = TenantGiven(q)
           /\ TenantStored(req[r].entityId) = TenantGiven(q)
           /\ req[q].op = "createTenant"
                => GetTenantByEntityId(req[r].entityId) = req[q].res.data
           /\ req[r].op = "createTenant"
                => req[r].res.data = GetTenantByEntityId(req[r].entityId)
           /\ (q = 1 /\ \A T \in InitialTenants : \A row \in T :
                            row.entity_id # req[q].entityId)
                => \A d \in TenantGiven(r) : d.entityName = req[q].entityName

C4_Witness ==
    \E q \in Reqs, r \in Reqs :
        /\ Done(q) /\ Done(r)
        /\ req[q].op = "createTenant" /\ req[r].op = "createTenant"
        /\ q = 1 /\ r = 2
        /\ req[q].entityId = req[r].entityId
        /\ req[q].entityName = Name1 /\ req[r].entityName = Name2
        /\ req[r].res.kind = "return"
        /\ \E d \in req[r].res.data : d.entityName = Name1

\* the schema names a delete call read from the row it found
FoundSchemas(r) ==
    {IF req[r].op = "deleteTenant" THEN t.schemaName ELSE t.schema_name : t \in req[r].found}

\* C9, the outcome: a delete that found the tenant has returned true (answered 200),
\* the tenant is absent from list() and from getByEntityId, and its schema is gone
C9_After ==
    \A r \in Reqs :
        ( /\ Done(r) /\ req[r].op \in DeleteOps
          /\ Latest(r) /\ req[r].found # {} )
        => /\ req[r].op = "deleteTenant" => req[r].res = Returned({}, TRUE)
           /\ req[r].op # "deleteTenant" => req[r].res.code = 200
           /\ GetTenantByEntityId(req[r].entityId) = {}
           /\ \A d \in ListTenants : d.entityId # req[r].entityId
           /\ FoundSchemas(r) \cap schemas = {}
           /\ FoundSchemas(r) = {SchemaNameOf(req[r].entityId)}

\* C9, the frame: no step of a delete adds a row, or touches the row or the schema
\* of another tenant
C9_Frame ==
    \A r \in Reqs :
        (Steps(r) /\ req'[r].op \in DeleteOps)
        => /\ tenants' \subseteq tenants
           /\ \A row \in tenants :
                row.entity_id # req'[r].entityId
                => /\ row \in tenants'
                   /\ (row.schema_name \in schemas) = (row.schema_name \in schemas')

\* C9: delete of an existing tenant, run on its own
C9_DeleteRemoves == []C9_After /\ [][C9_Frame]_vars

C9_Witness ==
    \E r \in Reqs :
        /\ Done(r) /\ req[r].op = "deleteTenant"
        /\ Latest(r) /\ req[r].res = Returned({}, TRUE)
        /\ tenants # {}
        /\ \A row \in tenants : row.schema_name \in schemas

\* C10: a delete whose lookup finds no row returns false (answers 404) in that very
\* step, and the rows, list() and the schemas are what they were
C10_DeleteAbsentNoEffect ==
    [][\A r \in Reqs :
         ( /\ Starts(r)
           /\ req'[r].op \in DeleteOps
           /\ \A row \in tenants : row.entity_id # req'[r].entityId )
         => /\ req'[r].pc = "done"
            /\ req'[r].op = "deleteTenant" => req'[r].res = Returned({}, FALSE)
            /\ req'[r].op # "deleteTenant" => req'[r].res = Response(404, {})
            /\ tenants' = tenants
            /\ ListTenants' = ListTenants
            /\ schemas' = schemas]_vars

C10_Witness ==
    \E r \in Reqs :
        /\ Done(r) /\ req[r].op = "deleteTenant"
        /\ req[r].res = Returned({}, FALSE)
        /\ tenants # {} /\ schemas # {}

\* a request that tenantMiddleware handles
IsMw(r) == req[r].op = "tenantMiddleware"

\* the request's own SET search_path has run
Switched(r) == Count(req[r].events, "switch") > 0

\* C1: every query of a request that switched the search_path to its tenant's schema
\* ran with the search_path naming that schema, and no other
C1_NoSchemaLeak ==
    \A r \in Reqs :
        (IsMw(r) /\ Switched(r))
        => \A t \in req[r].tenant : req[r].seen \subseteq {t.schemaName}

\* C7: a request with no tenant id, an id that resolves to no active tenant, or a
\* failed lookup is passed on without an error, and its queries run against public
C7_UnboundUsesPublic ==
    \A r \in Reqs :
        (IsMw(r) /\ req[r].tenant = {})
        => /\ req[r].res.kind # "throw"
           /\ req[r].seen \subseteq {Public}

\* C6: in a request bound to a tenant the switch comes first, before next() and so
\* before every query of the handlers, and the reset comes only after 'finish'
C6_SwitchFirstResetLast ==
    \A r \in Reqs :
        IsMw(r) =>
            LET ev == req[r].events
            IN /\ \A i \in DOMAIN ev, j \in DOMAIN ev :
                    (ev[i] \in {"next", "query"} /\ ev[j] = "switch") => j < i
               /\ \A i \in DOMAIN ev :
                    ev[i] = "query" => \E j \in 1..(i - 1) : ev[j] = "next"
               /\ (req[r].tenant # {} /\ ev # <<>> /\ ev[1] # "catch") => ev[1] = "switch"
               /\ \A i \in DOMAIN ev :
                    ev[i] = "reset" => \E j \in 1..(i - 1) : ev[j] = "finish"

C6_Witness ==
    \E r \in Reqs :
        /\ IsMw(r) /\ Done(r)
        /\ req[r].events = <<"switch", "next", "query", "finish", "reset">>

\* C8, the lookup: a request whose tenant id names a tenant that is not active gets
\* no req.tenant and no switch, while the row is still there
C8_Lookup ==
    \A r \in Reqs :
        ( /\ Starts(r)
          /\ req'[r].op = "tenantMiddleware"
          /\ \E row \in tenants : row.entity_id = req'[r].entityId
          /\ \A row \in tenants :
               row.entity_id = req'[r].entityId => row.status # "active" )
        => /\ req'[r].tenant = {}
           /\ req'[r].pc = "handler"
           /\ search_path' = search_path
           /\ TenantIn(tenants', req'[r].entityId) # {}

\* C8, the update: updateStatus(entityId, 'inactive') leaves the row in place, inactive
C8_Update ==
    \A r \in Reqs :
        ( /\ Starts(r)
          /\ req'[r].op = "updateTenantStatus"
          /\ req'[r].status = "inactive" /\ req'[r].pc # "done" )
        => /\ {row.entity_id : row \in tenants'} = {row.entity_id : row \in tenants}
           /\ \A d \in TenantIn(tenants', req'[r].entityId) : d.status = "inactive"

\* C8, the request: without req.tenant the request never switches the search_path
C8_NoSwitch ==
    \A r \in Reqs : (IsMw(r) /\ req[r].tenant = {}) => ~Switched(r)

\* C8: a tenant that is not active is treated as if no tenant were specified
C8_InactiveIsUnbound == []C8_NoSwitch /\ [][C8_Lookup]_vars /\ [][C8_Update]_vars

C8_Witness ==
    \E q \in Reqs, r \in Reqs :
        /\ Done(q) /\ req[q].op = "updateTenantStatus" /\ req[q].status = "inactive"
        /\ req[q].res.data # {}
        /\ IsMw(r) /\ r > q
        /\ req[r].entityId = req[q].entityId
        /\ req[r].tenant = {} /\ req[r].seen = {Public}
        /\ \E d \in GetTenantByEntityId(req[r].entityId) : d.status = "inactive"

\* an exception or an error answer
IsError(res) ==
    \/ res.kind = "throw"
    \/ res.kind = "response" /\ res.code >= 400

\* a delete is between its two statements
BetweenDropAndDelete(r) ==
    /\ req[r].op \in DeleteOps
    /\ req[r].pc \in {"dt_delete", "dl_delete"}

\* the row of the entityId is stored and names a schema that does not exist
Orphaned(entityId) ==
    /\ SelectByEntityId(entityId) # {}
    /\ \A row \in SelectByEntityId(entityId) : row.schema_name \notin schemas

\* C11, the order: the step that drops the schema leaves the row in place, and the
\* step that deletes the row finds the schema already dropped
C11_Order ==
    \A r \in Reqs :
        /\ ( /\ Steps(r) /\ req[r].op \in DeleteOps
             /\ req[r].pc \in {"dt_drop", "dl_drop"} )
           => /\ tenants' = tenants
              /\ ~IsError(req'[r].res) => /\ schemas' = schemas \ FoundSchemas(r)
                                          /\ BetweenDropAndDelete(r)'
        /\ (Steps(r) /\ BetweenDropAndDelete(r))
           => /\ FoundSchemas(r) \cap schemas = {}
              /\ schemas' = schemas

\* C11, the interruption by a crash: while a delete is between its two statements
\* the row is stored and its schema is gone
C11_Pending ==
    \A r \in Reqs : BetweenDropAndDelete(r) => Orphaned(req[r].entityId)

\* C11, the interruption by a storage failure: a DELETE statement that fails ends
\* the operation with the row still stored and its schema gone
C11_Interrupted ==
    \A r \in Reqs :
        (Steps(r) /\ BetweenDropAndDelete(r) /\ IsError(req'[r].res))
        => /\ req'[r].pc = "done"
           /\ tenants' = tenants
           /\ Orphaned(req[r].entityId)'

\* C11, no repair: an operation that has ended takes no further step
C11_NoRepair == \A r \in Reqs : Done(r) => req'[r] = req[r]

\* C11: in delete the schema is dropped before the row is deleted; an interruption
\* between the two leaves the row pointing at a schema that no longer exists, and no
\* later step of the operation repairs it
C11_DropBeforeDelete ==
    /\ []C11_Pending
    /\ [][C11_Order]_vars
    /\ [][C11_Interrupted]_vars
    /\ [][C11_NoRepair]_vars

C11_Witness ==
    \E r \in Reqs :
        /\ Done(r) /\ req[r].op \in DeleteOps /\ IsError(req[r].res)
        /\ req[r].found # {}
        /\ Orphaned(req[r].entityId)

\* two rows agree on every column but status and updated_at
SameButStatus(old, new) ==
    /\ new.id = old.id
    /\ new.entity_id = old.entity_id
    /\ new.entity_name = old.entity_name
    /\ new.schema_name = old.schema_name
    /\ new.created_at = old.created_at

\* C12, the update: the UPDATE of updateStatus changes status and updated_at of the
\* matching row and nothing else; without a matching row it changes nothing
C12_Update ==
    \A r \in Reqs :
        (Starts(r) /\ req'[r].op = "updateTenantStatus")
        => LET entityId == req'[r].entityId
           IN /\ req'[r].status \in {"active", "inactive"}
              /\ schemas' = schemas
              /\ \A row \in tenants : row.entity_id # entityId => row \in tenants'
              /\ \A new \in tenants' : new.entity_id # entityId => new \in tenants
              /\ \A row \in tenants :
                   row.entity_id = entityId
                   => \E new \in tenants' : /\ SameButStatus(row, new)
                                            /\ new.status = req'[r].status
                                            /\ new.updated_at >= row.updated_at
              /\ Cardinality(tenants') = Cardinality(tenants)
              /\ SelectByEntityId(entityId) = {} => tenants' = tenants

\* C12, the result: updateStatus returns the tenant with the status it was given, or
\* absent when no tenant matches
C12_Result ==
    \A r \in Reqs :
        (Done(r) /\ req[r].op = "updateTenantStatus" /\ Latest(r))
        => /\ req[r].res = Returned(GetTenantByEntityId(req[r].entityId), TRUE)
           /\ \A d \in req[r].res.data : d.status = req[r].status

\* C12: updateStatus(entityId, status) sets status and updatedAt of the matching row
\* and returns it; with no matching row it returns absent and changes nothing
C12_UpdateStatusFrame == []C12_Result /\ [][C12_Update]_vars

C12_Witness ==
    \E q \in Reqs, r \in Reqs :
        /\ Done(q) /\ req[q].op = "updateTenantStatus"
        /\ \E d \in req[q].res.data : d.status = "inactive" /\ d.updatedAt > d.createdAt
        /\ Done(r) /\ req[r].op = "updateTenantStatus"
        /\ req[r].res = Returned({}, TRUE)
        /\ tenants # {}

\* "tenant_" + entityId
DerivedId(entityId) == <<"t", "e", "n", "a", "n", "t", "_">> \o entityId

\* "tenant_entity_" + entityId with every hyphen replaced by an underscore
DerivedSchemaName(entityId) ==
    <<"t", "e", "n", "a", "n", "t", "_", "e", "n", "t", "i", "t", "y", "_">>
        \o [i \in 1..Len(entityId) |-> IF entityId[i] = "-" THEN "_" ELSE entityId[i]]

\* C13: every stored row has the id and the schema_name derived from its entity_id,
\* and a create that returned a tenant returned the derived values
C13_DerivedNames ==
    /\ \A row \in tenants : /\ row.id = DerivedId(row.entity_id)
                            /\ row.schema_name = DerivedSchemaName(row.entity_id)
    /\ \A r \in Reqs :
         (Done(r) /\ req[r].op = "createTenant")
         => \A d \in req[r].res.data :
              /\ d.entityId = req[r].entityId
              /\ d.id = DerivedId(req[r].entityId)
              /\ d.schemaName = DerivedSchemaName(req[r].entityId)
    /\ \A q \in Reqs, r \in Reqs :
         ( /\ Done(q) /\ req[q].op = "createTenant" /\ req[q].res.data # {}
           /\ r = q + 1 /\ Latest(r)
           /\ Done(r) /\ req[r].op = "getTenantByEntityId"
           /\ req[r].entityId = req[q].entityId )
         => /\ req[r].res.data # {}
            /\ \A d \in req[r].res.data :
                 d.schemaName = DerivedSchemaName(req[q].entityId)

C13_Witness ==
    \E q \in Reqs, r \in Reqs :
        /\ Done(q) /\ req[q].op = "createTenant" /\ req[q].entityId = IdAB
        /\ r = q + 1 /\ Done(r) /\ req[r].op = "getTenantByEntityId"
        /\ req[r].entityId = IdAB
        /\ \E d \in req[r].res.data : d.schemaName = <<"t", "e", "n", "a", "n", "t", "_",
                                                       "e", "n", "t", "i", "t", "y", "_",
                                                       "a", "_", "b">>

\* C14: no two rows share a schema_name, so no two tenants with different entityIds
\* are backed by the same schema
C14_NoSharedSchema ==
    \A x \in tenants, y \in tenants :
        /\ x.schema_name = y.schema_name => x = y
        /\ x.entity_id # y.entity_id => x.schema_name # y.schema_name

\* "a-b" is stored, and a create of "a_b" has been refused
C14_Witness ==
    \E r \in Reqs :
        /\ Done(r) /\ req[r].op \in CreateOps /\ req[r].entityId = IdA_B
        /\ IsError(req[r].res)
        /\ SelectByEntityId(IdAB) # {}
        /\ SelectByEntityId(IdA_B) = {}

\* two tenants agree on every field but updatedAt
SameButUpdatedAt(t, d) ==
    /\ d.id = t.id
    /\ d.entityId = t.entityId
    /\ d.entityName = t.entityName
    /\ d.schemaName = t.schemaName
    /\ d.status = t.status
    /\ d.createdAt = t.createdAt

ReadOps == {"getTenantByEntityId", "getTenantBySchemaName"}

\* C15, the round trip: getBySchemaName(t.schemaName), called right after the create
\* that returned t, returns a tenant equal to t but for updatedAt
C15_RoundTrip ==
    \A q \in Reqs, r \in Reqs :
        ( /\ Done(q) /\ req[q].op = "createTenant"
          /\ r = q + 1 /\ Latest(r)
          /\ Done(r) /\ req[r].op = "getTenantBySchemaName"
          /\ \E t \in req[q].res.data : t.schemaName = req[r].schemaName )
        => /\ req[r].res.kind = "return"
           /\ req[r].res.data # {}
           /\ \A t \in req[q].res.data, d \in req[r].res.data : SameButUpdatedAt(t, d)

\* C15, the reads: getBySchemaName and getByEntityId change nothing that is stored
C15_ReadOnly ==
    \A r \in Reqs :
        (Steps(r) /\ req'[r].op \in ReadOps)
        => UNCHANGED <<tenants, schemas, search_path, now, has_table>>

\* C15: getBySchemaName gives back the tenant a create returned, and the two lookups
\* are reads
C15_SchemaNameRoundTrip == []C15_RoundTrip /\ [][C15_ReadOnly]_vars

C15_Witness ==
    \E q \in Reqs, r \in Reqs :
        /\ Done(q) /\ req[q].op = "createTenant" /\ req[q].entityId = IdAB
        /\ r = q + 1 /\ Done(r) /\ req[r].op = "getTenantBySchemaName"
        /\ req[r].schemaName = SchemaNameOf(IdAB)
        /\ req[r].res.data # {}
        /\ req[r].res.data = req[q].res.data

\* C16: every stored row has status 'active' or 'inactive', and a create that has
\* just provisioned a tenant left it 'active'
C16_NeverPending ==
    /\ \A row \in tenants : row.status \in {"active", "inactive"}
    /\ \A r \in Reqs :
         (Done(r) /\ req[r].op = "createTenant" /\ Latest(r))
         => \A d \in req[r].res.data :
              d.createdAt = now => d.status = "active"

\* the operations behind the admin key
KeyedOps == {"POST /tenants/init", "GET /tenants", "POST /tenants"}

\* C17: a request to Initialize, List or Create whose x-admin-key is missing or is not
\* the expected secret is answered 401 in its first step, before any storage
\* statement: no statement can have failed, and the table, the rows and the schemas
\* are what they were
C17_InvalidKeyRejected ==
    [][\A r \in Reqs :
         ( /\ Starts(r)
           /\ req'[r].op \in KeyedOps
           /\ req'[r].adminKey # <<"k">> )
         => /\ req'[r].pc = "done"
            /\ req'[r].res = Response(401, {})
            /\ UNCHANGED <<tenants, schemas, has_table, search_path, now, faults>>]_vars

\* Initialize has been refused with a wrong key and Create with none, and the table
\* is still missing
C17_Witness ==
    /\ ~has_table
    /\ \E q \in Reqs, r \in Reqs :
         /\ Done(q) /\ req[q].op = "POST /tenants/init" /\ req[q].adminKey = WrongKey
         /\ req[q].res.code = 401
         /\ Done(r) /\ req[r].op = "POST /tenants" /\ req[r].adminKey = Empty
         /\ req[r].res.code = 401

PostOps == {"POST /tenants", "POST /admin/tenants"}

\* the Create handler lets the request in
Admitted(call) == call.op = "POST /tenants" => call.adminKey = <<"k">>

\* C18, the validation: a body without entityId or without entityName is answered
\* 400 before any storage statement
C18_Invalid ==
    \A r \in Reqs :
        ( /\ Starts(r) /\ req'[r].op \in PostOps /\ Admitted(req'[r])
          /\ (req'[r].entityId = <<>> \/ req'[r].entityName = <<>>) )
        => /\ req'[r].pc = "done"
           /\ req'[r].res = Response(400, {})
           /\ UNCHANGED <<tenants, schemas, has_table, search_path, now, faults>>

\* C18, the existing tenant: a valid request for an entityId that has a row is
\* answered 200 with that row, and nothing is written
C18_Existing ==
    \A r \in Reqs :
        ( /\ Starts(r) /\ req'[r].op \in PostOps /\ Admitted(req'[r])
          /\ req'[r].entityId # <<>> /\ req'[r].entityName # <<>>
          /\ SelectByEntityId(req'[r].entityId) # {}
          /\ faults' = faults )
        => /\ req'[r].pc = "done"
           /\ req'[r].res = Response(200, TenantStored(req'[r].entityId))
           /\ UNCHANGED <<tenants, schemas, has_table>>

\* C18, the new tenant: the handler answers 201 in the step that inserts the row, and
\* in no other; the row is 'active', carries the request's values, and its schema
\* exists
C18_Created ==
    \A r \in Reqs :
        (Steps(r) /\ req'[r].op \in PostOps)
        => /\ (req'[r].res.code = 201) = (tenants' # tenants)
           /\ req'[r].res.code = 201
              => /\ SelectByEntityId(req[r].entityId) = {}
                 /\ \E row \in tenants' :
                      /\ tenants' = tenants \cup {row}
                      /\ row.entity_id = req[r].entityId
                      /\ row.entity_name = req[r].entityName
                      /\ row.status = "active"
                      /\ row.schema_name \in schemas'
                      /\ req'[r].res.data = {[id |-> row.id, entityId |-> row.entity_id,
                                              entityName |-> row.entity_name,
                                              schemaName |-> row.schema_name,
                                              status |-> "active"]}

\* C18: the Create handler answers 400 to an incomplete body, 201 when it provisions
\* the tenant, and 200 with the stored record when the tenant exists
C18_CreateAnswers ==
    /\ [][C18_Invalid]_vars
    /\ [][C18_Existing]_vars
    /\ [][C18_Created]_vars

C18_Witness ==
    \E q \in Reqs, r \in Reqs :
        /\ Done(q) /\ req[q].op \in PostOps /\ req[q].res.code = 201
        /\ Done(r) /\ req[r].op \in PostOps /\ req[r].res.code = 200
        /\ r = q + 1 /\ req[r].entityId = req[q].entityId
        /\ req[r].entityName # req[q].entityName
        /\ req[r].res.data = req[q].res.data

\* Get-one, Update and Delete on /admin/tenants/:entityId
EntityOps == {"GET /admin/tenants/:entityId", "PATCH /admin/tenants/:entityId",
              "DELETE /admin/tenants/:entityId"}

\* C19: Get-one, Update and Delete for an entityId that has no row answer 404 in their
\* first step, the lookup, unless the lookup itself fails; in either case no exception
\* leaves the handler and the rows and the schemas are what they were
C19_AbsentIs404 ==
    [][\A r \in Reqs :
         ( /\ Starts(r) /\ req'[r].op \in EntityOps
           /\ \A row \in tenants : row.entity_id # req'[r].entityId )
         => /\ req'[r].pc = "done"
            /\ req'[r].res.kind = "response"
            /\ (has_table /\ faults' = faults) => req'[r].res = Response(404, {})
            /\ req'[r].res.code \in {404, 500}
            /\ UNCHANGED <<tenants, schemas, has_table, search_path, now>>]_vars

C19_Witness ==
    \E q \in Reqs, r \in Reqs :
        /\ Done(q) /\ req[q].op = "GET /admin/tenants/:entityId"
        /\ req[q].res = Response(404, {})
        /\ Done(r) /\ req[r].op = "PATCH /admin/tenants/:entityId"
        /\ req[r].res = Response(404, {}) /\ req[r].status = "inactive"
        /\ tenants # {}
        /\ SelectByEntityId(req[q].entityId) = {}
        /\ SelectByEntityId(req[r].entityId) = {}

\* the route handlers of the registry
HandlerOps ==
    KeyedOps \cup PostOps \cup EntityOps
        \cup {"POST /admin/tenants/init", "GET /admin/tenants"}

\* C20, the catch: a step of a handler in which a storage statement fails ends the
\* request with a 500 answer and writes nothing
C20_Caught ==
    \A r \in Reqs :
        (Steps(r) /\ req'[r].op \in HandlerOps /\ faults' < faults)
        => /\ req'[r].pc = "done"
           /\ req'[r].res = Response(500, {})
           /\ UNCHANGED <<tenants, schemas, has_table, search_path, now>>

\* C20, one response: a handler has answered exactly when its request has ended, and
\* never with an exception
C20_OneResponse ==
    \A r \in Reqs :
        req[r].op \in HandlerOps
        => /\ req[r].res.kind # "throw"
           /\ Done(r) = (req[r].res.kind = "response")

\* C20, no retry: a request that has been answered takes no further step
C20_NoRetry == \A r \in Reqs : req[r].res.kind = "response" => req'[r] = req[r]

\* C20: every route handler reports a storage failure at any of its steps as a 500
\* answer; nothing propagates, each request gets one response, nothing is retried
C20_FailuresAnswered500 ==
    /\ []C20_OneResponse
    /\ [][C20_Caught]_vars
    /\ [][C20_NoRetry]_vars

\* a Create has provisioned a tenant, and the DELETE of that tenant has been answered
\* 500 because its DROP SCHEMA or its DELETE statement failed
C20_Witness ==
    \E q \in Reqs, r \in Reqs :
        /\ Done(q) /\ req[q].op \in PostOps /\ req[q].res.code = 201
        /\ Done(r) /\ req[r].op = "DELETE /admin/tenants/:entityId"
        /\ req[r].entityId = req[q].entityId
        /\ req[r].found # {} /\ req[r].res = Response(500, {})

\* initialize, as the service's operation and as the two routes
InitOps == {"initializeTenantSystem", "POST /tenants/init", "POST /admin/tenants/init"}

\* the call came back without an exception and without an error answer
Succeeded(call) ==
    \/ call.res.kind = "return"
    \/ call.res.kind = "response" /\ call.res.code < 400

\* C21, the step: a call of initialize, whatever the state and whatever its outcome,
\* leaves every row, every schema and the search_path as they were and never removes
\* the table; when it succeeds the table exists; when the table was there and the call
\* succeeds, the storage is exactly what it was
C21_Step ==
    \A r \in Reqs :
        (Starts(r) /\ req'[r].op \in InitOps)
        => /\ req'[r].pc = "done"
           /\ UNCHANGED <<tenants, schemas, search_path, now>>
           /\ has_table => has_table'
           /\ Succeeded(req'[r]) => has_table'
           /\ (has_table /\ Succeeded(req'[r]))
                => UNCHANGED <<tenants, schemas, search_path, now, has_table, faults>>

\* C21, the table stays: after a call of initialize that succeeded, the table exists
\* whatever was called since
C21_TableStays ==
    \A r \in Reqs :
        (Done(r) /\ req[r].op \in InitOps /\ Succeeded(req[r])) => has_table

\* C21: initialize can be called once or again, in any state: the table exists after
\* it, no row changes, and no schema is created or dropped
C21_InitializeIdempotent ==
    /\ []C21_TableStays
    /\ [][C21_Step]_vars

\* initialize has run twice and succeeded twice, the first time creating the table,
\* with a tenant provisioned in between or before
C21_Witness ==
    \E q \in Reqs, r \in Reqs :
        /\ q < r
        /\ Done(q) /\ req[q].op = "POST /admin/tenants/init" /\ Succeeded(req[q])
        /\ Done(r) /\ req[r].op = "initializeTenantSystem" /\ Succeeded(req[r])
        /\ tenants # {} /\ schemas # {}

\* the login a request of an SSO handler carried
LoginOf(call) ==
    [entityId |-> call.entityId, entityName |-> call.entityName, payload |-> call.payload]

\* the login is one the handler's checks let through
Accepted(call) == call.op \in SsoOps /\ SsoVerdict(call.op, LoginOf(call)) = NoRes

\* C22, the tenant is there: after a login that succeeded, an 'active' row and its
\* schema exist for the entityId of the payload
C22_Provisioned ==
    \A r \in Reqs :
        (Done(r) /\ req[r].op \in SsoOps /\ Succeeded(req[r]))
        => \E row \in SelectByEntityId(req[r].entityId) :
             row.status = "active" /\ row.schema_name \in schemas

\* C22, the existing record: of two logins for one entityId that both passed the
\* checks, one after the other or overlapping, neither is answered with an error, and
\* the entityId has one row
C22_NoError ==
    \A q \in Reqs, r \in Reqs :
        ( /\ q # r /\ Done(q) /\ Done(r)
          /\ Accepted(req[q]) /\ Accepted(req[r])
          /\ req[q].entityId = req[r].entityId )
        => /\ ~Errored(q) /\ ~Errored(r)
           /\ Cardinality(SelectByEntityId(req[r].entityId)) = 1

\* C22: the first login for an entityId provisions its tenant, and every login for an
\* entityId that has a row is answered with that row, whether the logins overlap or
\* not
C22_FirstLoginCreates == C22_Provisioned /\ C22_NoError

\* C23: a step of a create call, whatever the other calls are doing, changes no row
\* that is stored: every row is after the step what it was before, entity_name and
\* updated_at included
C23_CreateNeverUpdates ==
    [][\A r \in Reqs :
         (Steps(r) /\ req'[r].op \in CreateOps)
         => \A row \in tenants : row \in tenants']_vars

\* C24, at rest: when no request is in flight the search_path of the connection is
\* public
C24_IdleIsPublic == InFlight = {} => search_path = Public

\* C24, the reset: the request that switched the search_path is followed by its own
\* reset to public
C24_ResetFollows ==
    \A r \in Reqs :
        (IsMw(r) /\ Switched(r)) ~> (Count(req[r].events, "reset") > 0)

\* C24: every switch of tenantMiddleware is eventually followed by the reset, and the
\* connection is back on public whenever no request is in flight, however the
\* response ends and whether or not the reset statement succeeds
C24_EventuallyReset == []C24_IdleIsPublic /\ C24_ResetFollows

\* the timestamp is a number no more than five minutes from the handler's clock
WithinWindow(timestamp) ==
    /\ timestamp.defined
    /\ timestamp.at >= DateNow - FiveMinutes
    /\ timestamp.at <= DateNow + FiveMinutes

\* the payload has its four required fields, a timestamp within the window, and the
\* signature the handler's secret gives for its entityId, userId and timestamp
WellFormed(call) ==
    /\ call.entityId # <<>> /\ call.payload.userId # <<>>
    /\ call.payload.email # <<>> /\ call.payload.signature # <<>>
    /\ WithinWindow(call.payload.timestamp)
    /\ call.payload.signature =
         HexDigest(SsoSecret(call.op),
                   Message(call.entityId, call.payload.userId, call.payload.timestamp))

\* C25, the writes: a step of an SSO handler that creates a schema, inserts a row or
\* sets the cookies belongs to a request whose payload is well formed
C25_Writes ==
    \A r \in Reqs :
        ( /\ Steps(r) /\ req'[r].op \in SsoOps
          /\ (schemas' # schemas \/ tenants' # tenants \/ req'[r].cookies # {}) )
        => WellFormed(req'[r])

\* C25, the rejection: a request whose payload is not well formed is answered with an
\* error in its first step, and the table, the rows and the schemas are what they were
C25_Rejected ==
    \A r \in Reqs :
        (Starts(r) /\ req'[r].op \in SsoOps /\ ~WellFormed(req'[r]))
        => /\ req'[r].pc = "done"
           /\ req'[r].res.code >= 400
           /\ req'[r].cookies = {}
           /\ UNCHANGED <<tenants, schemas, has_table, search_path, now>>

\* C25: in both SSO handlers nothing is provisioned and no cookie is set unless the
\* payload has entityId, userId, email and signature, a timestamp within five minutes
\* of now and a signature that verifies; a rejected request changes nothing
C25_OnlyValidLoginsWrite == [][C25_Writes /\ C25_Rejected]_vars

\* the payload passes the checks of its fields and of its timestamp
FieldsAndTimestampPass(call) ==
    /\ call.payload.token = "payload"
    /\ call.entityId # <<>> /\ call.payload.userId # <<>>
    /\ call.payload.email # <<>> /\ call.payload.signature # <<>>
    /\ call.payload.timestamp.defined => WithinWindow(call.payload.timestamp)

\* C26: in both SSO handlers a login that passes the checks of its fields and of its
\* timestamp and carries a signature other than the expected digest, as long as the
\* digest or not, is answered 401 'Invalid signature' before any statement
C26_BadSignatureIs401 ==
    [][\A r \in Reqs :
         ( /\ Starts(r) /\ req'[r].op \in SsoOps
           /\ FieldsAndTimestampPass(req'[r])
           /\ req'[r].payload.signature #
                HexDigest(SsoSecret(req'[r].op),
                          Message(req'[r].entityId, req'[r].payload.userId,
                                  req'[r].payload.timestamp)) )
         => /\ req'[r].pc = "done"
            /\ req'[r].res = Response(401, {[error |-> "Invalid signature"]})
            /\ UNCHANGED <<tenants, schemas, has_table, search_path, now>>]_vars

\* the PATCH request's body supplies entityName, supplies status
GivesName(call) == call.entityName # <<>>
GivesStatus(call) == call.status # ""

\* C27, the rows: a step of a PATCH request changes no row but the one of its
\* entityId, and of that row nothing but entity_name when the body gives one, status
\* when the body gives one, and updated_at when the body gives either; a field the
\* body gives is stored as given
C27_Rows ==
    \A r \in Reqs :
        (Steps(r) /\ req'[r].op = "PATCH /admin/tenants/:entityId")
        => /\ Cardinality(tenants') = Cardinality(tenants)
           /\ \A old \in tenants :
                IF old.entity_id # req'[r].entityId THEN old \in tenants'
                ELSE \E new \in tenants' :
                       /\ new.id = old.id /\ new.entity_id = old.entity_id
                       /\ new.schema_name = old.schema_name
                       /\ new.created_at = old.created_at
                       /\ new.entity_name \in {old.entity_name, req'[r].entityName}
                       /\ new.status \in {old.status, req'[r].status}
                       /\ ~GivesName(req'[r]) => new.entity_name = old.entity_name
                       /\ ~GivesStatus(req'[r]) => new.status = old.status
                       /\ (~GivesName(req'[r]) /\ ~GivesStatus(req'[r]))
                            => new.updated_at = old.updated_at
                       /\ new # old
                            => /\ GivesName(req'[r]) => new.entity_name = req'[r].entityName
                               /\ GivesStatus(req'[r]) => new.status = req'[r].status
                               /\ new.updated_at > old.updated_at

\* C27, the answer: a PATCH answers 200 with the row of its entityId as it is stored,
\* in a step that writes nothing
C27_Answer ==
    \A r \in Reqs :
        ( /\ Completes(r) /\ req'[r].op = "PATCH /admin/tenants/:entityId"
          /\ req'[r].res.code = 200 )
        => /\ req'[r].res.data = TenantIn(tenants, req'[r].entityId)
           /\ req'[r].res.data # {}
           /\ tenants' = tenants

\* C27: PATCH changes only the fields its body gives and updated_at, never id,
\* entity_id, schema_name or created_at, and with an empty body changes nothing and
\* answers the stored row
C27_PatchFrame == [][C27_Rows /\ C27_Answer]_vars

\* a PATCH that gave a new name has been answered with the renamed row, and the PATCH
\* after it, with an empty body, with the same row
C27_Witness ==
    \E q \in Reqs, r \in Reqs :
        /\ r = q + 1 /\ Done(q) /\ Done(r)
        /\ req[q].op = "PATCH /admin/tenants/:entityId" /\ req[q].res.code = 200
        /\ req[r].op = "PATCH /admin/tenants/:entityId" /\ req[r].res.code = 200
        /\ req[q].entityName = Name2 /\ req[q].status = "inactive"
        /\ req[r].entityName = Empty /\ req[r].status = ""
        /\ req[r].res.data = req[q].res.data
        /\ \E d \in req[r].res.data :
             /\ d.entityName = Name2 /\ d.status = "inactive"
             /\ d.updatedAt > d.createdAt

\* C28: with every storage statement succeeding, once no create or delete call is in
\* flight the schemas that exist are exactly the schema_name values of the rows
C28_AtRestRowsMatchSchemas ==
    InFlight = {} => schemas = {row.schema_name : row \in tenants}

\* request r is bound to its tenant's schema: its switch has run, its reset has not
Bound(r) ==
    /\ IsMw(r) /\ Switched(r)
    /\ req[r].pc \in {"handler", "mw_reset"}

\* C29: the schema of every request that is bound to a tenant exists, whatever
\* deletes run meanwhile, so that the request's queries never run on a search_path
\* that names a dropped schema
C29_BoundSchemaExists ==
    \A r \in Reqs :
        Bound(r) => \A t \in req[r].tenant : t.schemaName \in schemas

\* ---- C30: the registry as a function of the calls alone
\* a registry: its tenants on the fields the claim names, and its namespaces
RegistryOf(table, names) ==
    [rows |-> {ToTenantBody(row) : row \in table}, schemas |-> names]

\* create(entityId, entityName) on a registry: nothing when the entityId has a tenant
\* or when the new tenant would take the id or the namespace of another one (the
\* call fails); else the namespace and an 'active' tenant with the derived names
RegistryCreate(reg, entityId, entityName) ==
    LET new == [id |-> DerivedId(entityId), entityId |-> entityId,
                entityName |-> entityName, schemaName |-> DerivedSchemaName(entityId),
                status |-> "active"]
    IN IF \E old \in reg.rows : old.entityId = entityId THEN reg
       ELSE IF \E old \in reg.rows : old.id = new.id \/ old.schemaName = new.schemaName
       THEN [reg EXCEPT !.schemas = @ \cup {new.schemaName}]
       ELSE [rows |-> reg.rows \cup {new}, schemas |-> reg.schemas \cup {new.schemaName}]

\* delete(entityId) on a registry: the tenant and its namespace go, if there are any
RegistryDelete(reg, entityId) ==
    LET gone == {old \in reg.rows : old.entityId = entityId}
    IN [rows |-> reg.rows \ gone,
        schemas |-> reg.schemas \ {old.schemaName : old \in gone}]

\* what a call asks of the registry, whoever serves it: a create with its two inputs
\* (through the handler only when the key and the body let it in), a delete with its
\* entityId, or nothing
RegistryCall(reg, call) ==
    IF /\ call.op \in {"createTenant", "POST /tenants"}
       /\ Admitted(call) /\ call.entityId # <<>> /\ call.entityName # <<>>
    THEN RegistryCreate(reg, call.entityId, call.entityName)
    ELSE IF call.op \in DeleteOps THEN RegistryDelete(reg, call.entityId)
    ELSE reg

\* the registry after the first k calls, from the one tenant provisioned at the start
RECURSIVE Replay(_)
Replay(k) ==
    IF k = 0
    THEN RegistryOf({NewRow(TenantIdOf(IdC), IdC, Name1, SchemaNameOf(IdC), 1)},
                    {SchemaNameOf(IdC)})
    ELSE RegistryCall(Replay(k - 1), req[k])

\* C30: after every sequential run of create and delete calls, the rows (id,
\* entityId, entityName, schemaName, status) and the namespaces are those the inputs
\* of the calls determine, the same whether createTenant / deleteTenant or the
\* POST /tenants / DELETE handlers served each call: two runs on the same inputs from
\* the same state end alike
C30_SameRegistry ==
    InFlight = {} => RegistryOf(tenants, schemas) = Replay(NumReqs)

\* a tenant has been created by the service and deleted by the handler, or created by
\* the handler and deleted by the service, and the registry is the one the calls
\* determine
C30_Witness ==
    /\ InFlight = {}
    /\ \E q \in Reqs, r \in Reqs :
         /\ r = q + 1
         /\ req[q].op \in {"createTenant", "POST /tenants"}
         /\ req[r].op \in DeleteOps
         /\ (req[q].op = "createTenant") = (req[r].op = "DELETE /admin/tenants/:entityId")
         /\ req[q].entityId = IdAB /\ req[r].entityId = IdAB
         /\ ~Errored(q) /\ ~Errored(r)
         /\ RegistryOf(tenants, schemas) = Replay(r)
         /\ Replay(q) # Replay(r) /\ Replay(q) # Replay(q - 1)

====
